---- MODULE Spec2Model ----
(***************************************************************************)
(* Model of the crimson mClock scheduler                                   *)
(* (src/src/crimson/osd/scheduler/mclock_scheduler.cc): the capacity and   *)
(* profile model, the client registry, the dmClock tag engine it drives    *)
(* and the strict-priority bypass queue in front of it.                    *)
(*                                                                         *)
(* Doubles are fixed-point integers with FP units per 1.0. Times and tags  *)
(* are integers with TagScale units per second.                            *)
(***************************************************************************)
EXTENDS Integers, Sequences, FiniteSets, TLC

\* ------------------------------------------------------------------ bounds
\* Largest number of enqueue / enqueue_front calls in one behaviour.
MaxEnq == 2
\* Largest clock value, in tag units (the clock advances one unit a Tick).
MaxNow == 1

\* ------------------------------------------------------- program constants
\* Fixed-point denominator of the doubles of the model (1.0 == FP).
FP == 100
\* Tag and clock units per second.
TagScale == 1
CEPH_MSG_PRIO_LOW == 64
CEPH_MSG_PRIO_HIGH == 196
\* The bucket of immediate-class items: above every message priority.
immediate_class_priority == 1000000
\* ClientInfo floor and sentinel, as fixed-point doubles (1.0 and 999999.0).
default_min == 100
default_max == 99999900
\* Proportional-share reference weight of the tag engine.
W_ref == 1

\* ----------------------------------------------------------------- helpers
Max(a, b) == IF a >= b THEN a ELSE b
Min(a, b) == IF a <= b THEN a ELSE b
SetMax(S) == CHOOSE x \in S : \A y \in S : y <= x
SetMin(S) == CHOOSE x \in S : \A y \in S : x <= y

\* --------------------------------------------------------------- variables
VARIABLES
  conf,                              \* the config store (cct->_conf)
  shard,                             \* [num_shards, shard_id, is_rotational]
  cutoff_priority,
  osd_bandwidth_cost_per_io,         \* double, fixed-point
  osd_bandwidth_capacity_per_shard,  \* double, fixed-point
  client_registry,
  scheduler,                         \* the dmClock queue: id -> client record
  high_priority,                     \* priority -> deque of items
  now,                               \* the monotonic clock, in tag units
  next_seq,                          \* history: number of the next enqueue
  last,                              \* history: the last operation, its result
  wake,                              \* history: the last future token and the
                                     \* work item that answered it
  served,                            \* history: the requests the tag engine
                                     \* returned, kept where windows are checked
  delivered,                         \* history: the config store as the last
                                     \* notification found it, the changed keys
  fatal,                             \* "" or the assertion that ended the run
  peers,                             \* the scheduler instances of the shards
                                     \* with shard_id > 0 on the same store
  inbox,                             \* shard_id -> the notifications the
                                     \* store has not delivered to it yet
  edits,                             \* history: the operator's edits so far
  index_pool,                        \* the objects of the bucket index pool
  bilog,                             \* what log_start / log_stop wrote
  datalog,                           \* the shards add_entry has logged
  call                               \* the bucket index operation under way
                                     \* and what it returned

vars == << conf, shard, cutoff_priority, osd_bandwidth_cost_per_io,
           osd_bandwidth_capacity_per_shard, client_registry, scheduler,
           high_priority, now, next_seq, last, wake, served, delivered,
           fatal, peers, inbox, edits, index_pool, bilog, datalog, call >>

\* One scheduler instance is alone on its config store.
NoPeers == peers = << >> /\ inbox = << >> /\ edits = 0
PeersUnchanged == UNCHANGED << peers, inbox, edits >>

\* No bucket index operation was called.
NoCall == [ op |-> "", phase |-> "idle", seq |-> 0 ]
NoIndex == index_pool = {} /\ bilog = "" /\ datalog = << >> /\ call = NoCall
IndexUnchanged == UNCHANGED << index_pool, bilog, datalog, call >>

\* ------------------------------------------------------------ capacity model
\* The double +infinity (what a division of a positive double by 0.0 gives).
DoubleInf == 2000000000

\* Product and quotient of two fixed-point doubles.
FMul(a, b) ==
  IF a = DoubleInf \/ b = DoubleInf THEN DoubleInf ELSE (a * b) \div FP

FDiv(a, b) == IF b = 0 THEN DoubleInf ELSE (a * FP) \div b

\* Variant: the hdd keys are read whatever the device is.
set_osd_capacity_params_hdd_only(c, sh) ==
  LET bw   == Max(1, c.bw_hdd)
      iops == Max(FP, c.iops_hdd)
  IN  [ cost_per_io        |-> FDiv(bw * FP, iops),
        capacity_per_shard |-> FDiv(bw * FP, sh.num_shards * FP) ]

\* set_osd_capacity_params_from_config: [cost_per_io, capacity_per_shard].
\* Bandwidth is a uint64 (bytes/s), IOPS a double; both clamped to >= 1.
set_osd_capacity_params_from_config(c, sh) ==
  LET raw_bw   == IF sh.is_rotational THEN c.bw_hdd ELSE c.bw_ssd
      raw_iops == IF sh.is_rotational THEN c.iops_hdd ELSE c.iops_ssd
      bw       == Max(1, raw_bw)
      iops     == Max(FP, raw_iops)
  IN  [ cost_per_io        |-> FDiv(bw * FP, iops),
        capacity_per_shard |-> FDiv(bw * FP, sh.num_shards * FP) ]

\* ----------------------------------------------------------------- profiles
ProfileRow(res, wgt, lim) == [res |-> res, wgt |-> wgt, lim |-> lim]

high_client_ops_profile ==
  [ client                 |-> ProfileRow(60, 2, 0),
    background_recovery    |-> ProfileRow(40, 1, 0),
    background_best_effort |-> ProfileRow(0, 1, 70) ]

\* Variant: the client and recovery rows of high_recovery_ops are exchanged.
high_recovery_ops_profile_swapped ==
  [ client                 |-> ProfileRow(70, 2, 0),
    background_recovery    |-> ProfileRow(30, 1, 0),
    background_best_effort |-> ProfileRow(0, 1, 0) ]

high_recovery_ops_profile ==
  [ client                 |-> ProfileRow(30, 1, 0),
    background_recovery    |-> ProfileRow(70, 2, 0),
    background_best_effort |-> ProfileRow(0, 1, 0) ]

balanced_profile ==
  [ client                 |-> ProfileRow(50, 1, 0),
    background_recovery    |-> ProfileRow(50, 1, 0),
    background_best_effort |-> ProfileRow(0, 1, 90) ]

BuiltinProfiles == {"high_client_ops", "high_recovery_ops", "balanced"}
KnownProfiles == BuiltinProfiles \cup {"custom"}

ProfileOf(name) ==
  IF name = "high_client_ops" THEN high_client_ops_profile
  ELSE IF name = "high_recovery_ops" THEN high_recovery_ops_profile
  ELSE balanced_profile

\* Whether set_config_defaults_from_profile ends in its assertion.
profile_assert_fails(c, sh) ==
  ~(sh.shard_id > 0) /\ c.profile \notin KnownProfiles

\* The double the config store holds after it was handed std::to_string(x):
\* x printed with six decimals and parsed again.
to_string_double(x) == ((x * (1000000 \div FP)) * FP) \div 1000000

\* The config store after the nine set_config calls for profile p.
set_config(c, p) ==
  [ c EXCEPT
      !.client_res = to_string_double(p.client.res),
      !.client_wgt = p.client.wgt,
      !.client_lim = to_string_double(p.client.lim),
      !.background_recovery_res = to_string_double(p.background_recovery.res),
      !.background_recovery_wgt = p.background_recovery.wgt,
      !.background_recovery_lim = to_string_double(p.background_recovery.lim),
      !.background_best_effort_res =
          to_string_double(p.background_best_effort.res),
      !.background_best_effort_wgt = p.background_best_effort.wgt,
      !.background_best_effort_lim =
          to_string_double(p.background_best_effort.lim) ]

\* Variant: every shard writes the defaults of the profile.
set_config_defaults_every_shard(c, sh) ==
  IF c.profile \in BuiltinProfiles THEN set_config(c, ProfileOf(c.profile))
  ELSE c

\* Variant: custom is materialized like balanced.
set_config_defaults_custom_as_balanced(c, sh) ==
  IF sh.shard_id > 0 THEN c
  ELSE IF c.profile \in BuiltinProfiles
    THEN set_config(c, ProfileOf(c.profile))
  ELSE IF c.profile = "custom" THEN set_config(c, balanced_profile)
  ELSE c

\* set_config_defaults_from_profile: the config store afterwards.
set_config_defaults_from_profile(c, sh) ==
  IF sh.shard_id > 0 THEN c
  ELSE IF c.profile \in BuiltinProfiles
    THEN set_config(c, ProfileOf(c.profile))
  ELSE c

\* ---------------------------------------------------------- client registry
ClientInfo(res, wgt, lim) == [reservation |-> res, weight |-> wgt, limit |-> lim]

\* Variant: a reservation ratio of 0 is multiplied like any other.
get_res_unfloored(res, capacity_per_shard) == FMul(res, capacity_per_shard)

get_res(res, capacity_per_shard) ==
  IF res # 0 THEN FMul(res, capacity_per_shard) ELSE default_min

get_lim(lim, capacity_per_shard) ==
  IF lim # 0 THEN FMul(lim, capacity_per_shard) ELSE default_max

\* Variant: the reservations are added to the ones the registry holds.
update_from_config_accumulating(reg, c, capacity_per_shard) ==
  LET Info(old, res, wgt, lim) ==
        ClientInfo(old.reservation + get_res(res, capacity_per_shard), wgt,
                   get_lim(lim, capacity_per_shard))
  IN  [ reg EXCEPT
          !.default_external_client_info =
              Info(@, c.client_res, c.client_wgt, c.client_lim),
          !.background_recovery =
              Info(@, c.background_recovery_res, c.background_recovery_wgt,
                   c.background_recovery_lim),
          !.background_best_effort =
              Info(@, c.background_best_effort_res,
                   c.background_best_effort_wgt,
                   c.background_best_effort_lim) ]

\* ClientRegistry::update_from_config: the registry afterwards.
update_from_config(reg, c, capacity_per_shard) ==
  [ reg EXCEPT
      !.default_external_client_info =
          ClientInfo(get_res(c.client_res, capacity_per_shard),
                     c.client_wgt,
                     get_lim(c.client_lim, capacity_per_shard)),
      !.background_recovery =
          ClientInfo(get_res(c.background_recovery_res, capacity_per_shard),
                     c.background_recovery_wgt,
                     get_lim(c.background_recovery_lim, capacity_per_shard)),
      !.background_best_effort =
          ClientInfo(get_res(c.background_best_effort_res, capacity_per_shard),
                     c.background_best_effort_wgt,
                     get_lim(c.background_best_effort_lim, capacity_per_shard)) ]

\* The registry before the first update_from_config: no external client is
\* known, and the entries hold the ClientInfo defaults.
EmptyRegistry ==
  [ default_external_client_info |-> ClientInfo(default_min, 1, default_max),
    background_recovery          |-> ClientInfo(default_min, 1, default_max),
    background_best_effort       |-> ClientInfo(default_min, 1, default_max),
    external_client_infos        |-> << >> ]

get_external_client(reg, client) ==
  IF client \in DOMAIN reg.external_client_infos
  THEN reg.external_client_infos[client]
  ELSE reg.default_external_client_info

\* Whether get_info ends in "Cannot schedule immediate".
get_info_asserts(id) == id.class_id = "immediate"

\* Variant: every id is looked up as an external client.
get_info_as_external_client(reg, id) ==
  get_external_client(reg, id.client_profile_id)

get_info(reg, id) ==
  IF id.class_id = "client" THEN get_external_client(reg, id.client_profile_id)
  ELSE IF id.class_id = "background_recovery" THEN reg.background_recovery
  ELSE reg.background_best_effort

\* --------------------------------------------------------------- work items
Classes == {"immediate", "client", "background_recovery",
            "background_best_effort"}
Priorities == {63, 64, 196}
Costs == {0, 4}
ClientProfiles == {0}

\* A work item: its scheduler parameters, and two history fields: seq, the
\* number of the call that enqueued it, and front, whether that call was
\* enqueue_front.
Item(k, p, c, pid, n, f) ==
  [ klass |-> k, priority |-> p, cost |-> c, client_profile_id |-> pid,
    seq |-> n, front |-> f ]

NoItem == Item("none", 0, 0, 0, 0, FALSE)

\* The items a producer may hand over as call number n.
InputItems(n, f) ==
  { Item(k, p, c, pid, n, f) :
      k \in Classes, p \in Priorities, c \in Costs, pid \in ClientProfiles }

get_scheduler_id(item) ==
  [ class_id |-> item.klass, client_profile_id |-> item.client_profile_id ]

\* uint32_t(double): truncation towards zero.
DoubleToU32(x) == x \div FP

\* Variant: the clamp to one IO worth of bytes is left out.
calc_scaled_cost_no_io_floor(item_cost) == Max(1, item_cost)

\* Variant: the declared cost is not raised to 1.
calc_scaled_cost_unclamped(item_cost) ==
  Max(item_cost, DoubleToU32(osd_bandwidth_cost_per_io))

calc_scaled_cost(item_cost) ==
  LET cost        == Max(1, item_cost)
      cost_per_io == DoubleToU32(osd_bandwidth_cost_per_io)
  IN  Max(cost, cost_per_io)

\* ------------------------------------------------------ dmClock tag engine
\* scheduler maps each known scheduler id to its client record:
\*   r_tag, p_tag, l_tag  the tags of the client's last admitted request
\*   requests             FIFO of [item, cost, r, p, l]
\*   order                creation order of the record among the live ones
\*   last_tick            clock value of the client's last admission or pull
ClassRank(k) ==
  IF k = "background_recovery" THEN 0
  ELSE IF k = "background_best_effort" THEN 1
  ELSE IF k = "immediate" THEN 2
  ELSE 3

\* The order of scheduler ids: class first, then client profile.
IdLess(a, b) ==
  \/ ClassRank(a.class_id) < ClassRank(b.class_id)
  \/ /\ a.class_id = b.class_id
     /\ a.client_profile_id < b.client_profile_id

NewClientRec(sched) ==
  [ r_tag |-> 0, p_tag |-> 0, l_tag |-> 0, requests |-> << >>,
    order |-> IF DOMAIN sched = {} THEN 1
              ELSE 1 + SetMax({ sched[i].order : i \in DOMAIN sched }),
    last_tick |-> 0 ]

\* Tag increments of a request of the given cost, in tag units.
ResvInc(info, cost) == (cost * FP * TagScale) \div info.reservation
PropInc(info, cost) == (cost * W_ref * TagScale) \div info.weight
\* Variant: the limit tag does not advance with the cost.
LimitInc_none(info, cost) == 0

LimitInc(info, cost) == (cost * FP * TagScale) \div info.limit

\* PriorityQueueBase::add_request with the tags of the request computed on
\* admission from the client's ClientInfo.
add_request(sched, item, id, cost, time, info) ==
  LET rec   == IF id \in DOMAIN sched THEN sched[id] ELSE NewClientRec(sched)
      r_new == Max(rec.r_tag, time) + ResvInc(info, cost)
      p_new == rec.p_tag + PropInc(info, cost)
      l_new == Max(rec.l_tag, time) + LimitInc(info, cost)
      req   == [ item |-> item, cost |-> cost,
                 r |-> r_new, p |-> p_new, l |-> l_new ]
      rec2  == [ rec EXCEPT !.r_tag = r_new, !.p_tag = p_new, !.l_tag = l_new,
                            !.requests = Append(@, req),
                            !.last_tick = time ]
  IN  [ i \in DOMAIN sched \cup {id} |-> IF i = id THEN rec2 ELSE sched[i] ]

request_count(sched) ==
  LET RECURSIVE Sum(_)
      Sum(S) == IF S = {} THEN 0
                ELSE LET i == CHOOSE x \in S : TRUE
                     IN  Len(sched[i].requests) + Sum(S \ {i})
  IN  Sum(DOMAIN sched)

client_count(sched) == Cardinality(DOMAIN sched)

Pending(sched) == { i \in DOMAIN sched : sched[i].requests # << >> }

HeadReq(sched, i) == sched[i].requests[1]

\* PullPriorityQueue::pull_request at time t: [kind, id, phase, time] with
\* kind "none", "future" (time is the wake-up time) or "retn" (id is the
\* client whose head request is returned). resv_first: the reservation phase
\* precedes the proportional one; limited: the proportional phase takes only
\* heads within their limit; wake_resv: the wake-up time counts reservation
\* tags.
Pull(sched, t, resv_first, limited, wake_resv) ==
  LET pend  == Pending(sched)
      resv  == { i \in pend : HeadReq(sched, i).r <= t }
      prop  == { i \in pend : limited => HeadReq(sched, i).l <= t }
      NoId  == [ class_id |-> "none", client_profile_id |-> 0 ]
      ByR   == [ kind |-> "retn",
                 id |-> CHOOSE i \in resv : \A j \in resv :
                          \/ HeadReq(sched, i).r < HeadReq(sched, j).r
                          \/ /\ HeadReq(sched, i).r = HeadReq(sched, j).r
                             /\ sched[i].order <= sched[j].order,
                 phase |-> "reservation", time |-> -1 ]
      ByP   == [ kind |-> "retn",
                 id |-> CHOOSE i \in prop : \A j \in prop :
                          \/ HeadReq(sched, i).p < HeadReq(sched, j).p
                          \/ /\ HeadReq(sched, i).p = HeadReq(sched, j).p
                             /\ (i = j \/ IdLess(i, j)),
                 phase |-> "priority", time |-> -1 ]
  IN  IF pend = {} THEN
        [ kind |-> "none", id |-> NoId, phase |-> "", time |-> -1 ]
      ELSE IF resv # {} /\ (resv_first \/ prop = {}) THEN ByR
      ELSE IF prop # {} THEN ByP
      ELSE
        [ kind |-> "future", id |-> NoId, phase |-> "",
          time |-> SetMin({ IF wake_resv
                              THEN Min(HeadReq(sched, i).r, HeadReq(sched, i).l)
                              ELSE HeadReq(sched, i).l : i \in pend }) ]

\* Variant: the proportional phase is tried before the reservation phase.
pull_request_prop_first(sched, t) == Pull(sched, t, FALSE, TRUE, TRUE)

\* Variant: the proportional phase takes heads beyond their limit.
pull_request_ignore_limit(sched, t) == Pull(sched, t, TRUE, FALSE, TRUE)

\* Variant: the wake-up time is the earliest limit tag.
pull_request_wake_on_limit(sched, t) == Pull(sched, t, TRUE, TRUE, FALSE)

pull_request(sched, t) == Pull(sched, t, TRUE, TRUE, TRUE)

\* The tag engine after the head request of client id was handed out at t.
pop_request(sched, id, t) ==
  [ sched EXCEPT ![id].requests = Tail(@), ![id].last_tick = t ]

\* The idle-client retention, in tag units.
anticipation_timeout(c) == (c.anticipation_timeout * TagScale) \div FP

\* The clients the cleaning pass discards at time t: idle ones whose last
\* activity is at least the retention period ago.
Expired(sched, c, t) ==
  { i \in DOMAIN sched : /\ sched[i].requests = << >>
                         /\ t - sched[i].last_tick >= anticipation_timeout(c) }

\* ------------------------------------------------- the high-priority queue
\* The first key of high_priority, a map ordered by descending priority.
HighPriorityBegin(hp) == SetMax(DOMAIN hp)

\* Number of items in the bypass queue, over all buckets.
HighSize(hp) ==
  LET RECURSIVE Sum(_)
      Sum(S) == IF S = {} THEN 0
                ELSE LET k == CHOOSE x \in S : TRUE
                     IN  Len(hp[k]) + Sum(S \ {k})
  IN  Sum(DOMAIN hp)

\* The items of the bypass queue.
HighItems(hp) ==
  UNION { { hp[k][n] : n \in 1..Len(hp[k]) } : k \in DOMAIN hp }

\* Variant: every item is pushed at the back of the deque.
enqueue_high_always_back(hp, priority, item, front) ==
  LET bucket == IF priority \in DOMAIN hp THEN hp[priority] ELSE << >>
  IN  [ k \in DOMAIN hp \cup {priority} |->
          IF k = priority THEN Append(bucket, item) ELSE hp[k] ]

\* Variant: every item is pushed at the head of the deque.
enqueue_high_always_head(hp, priority, item, front) ==
  LET bucket == IF priority \in DOMAIN hp THEN hp[priority] ELSE << >>
  IN  [ k \in DOMAIN hp \cup {priority} |->
          IF k = priority THEN << item >> \o bucket ELSE hp[k] ]

\* Variant: front pushes at the head of the deque, otherwise the item is
\* appended at its back.
enqueue_high_front_at_head(hp, priority, item, front) ==
  LET bucket == IF priority \in DOMAIN hp THEN hp[priority] ELSE << >>
      grown  == IF front THEN << item >> \o bucket ELSE Append(bucket, item)
  IN  [ k \in DOMAIN hp \cup {priority} |->
          IF k = priority THEN grown ELSE hp[k] ]

\* enqueue_high: operator[] creates the bucket; front appends at the back of
\* the deque (the end dequeue pops), otherwise the item goes to its head.
enqueue_high(hp, priority, item, front) ==
  LET bucket == IF priority \in DOMAIN hp THEN hp[priority] ELSE << >>
      grown  == IF front THEN Append(bucket, item) ELSE << item >> \o bucket
  IN  [ k \in DOMAIN hp \cup {priority} |->
          IF k = priority THEN grown ELSE hp[k] ]

\* ------------------------------------------------------------ construction
\* Variant: "high" falls through to the catch-all branch.
get_op_queue_cut_off_high_as_low(c) ==
  IF c.cut_off = "debug_random" THEN {CEPH_MSG_PRIO_HIGH, CEPH_MSG_PRIO_LOW}
  ELSE {CEPH_MSG_PRIO_LOW}

\* The cutoff priorities get_op_queue_cut_off may return.
get_op_queue_cut_off(c) ==
  IF c.cut_off = "debug_random" THEN {CEPH_MSG_PRIO_HIGH, CEPH_MSG_PRIO_LOW}
  ELSE IF c.cut_off = "high" THEN {CEPH_MSG_PRIO_HIGH}
  ELSE {CEPH_MSG_PRIO_LOW}

Last(op, item, bucket, kind, via, time) ==
  [ op |-> op, item |-> item, bucket |-> bucket, kind |-> kind, via |-> via,
    time |-> time ]

\* No future token was handed out yet.
NoToken == [ time |-> -1, item |-> NoItem ]

\* The history of notifications: the store before the operator's edit and as
\* the handler found it, the keys that changed, the number of notifications
\* so far.
Delivered(before, c, changed, count) ==
  [ before |-> before, conf |-> c, changed |-> changed, count |-> count ]

\* Variant: the constructor does not test num_shards.
num_shards_assert_dropped(sh) == FALSE

\* Whether ceph_assert(num_shards > 0) of the constructor fails.
num_shards_assert_fails(sh) == ~(sh.num_shards > 0)

\* The state the constructor leaves for config store c and shard sh. When an
\* assertion ends it, the members it had not reached yet are left at 0 and
\* the registry as it was built.
Constructed(c, sh) ==
  LET cap         == set_osd_capacity_params_from_config(c, sh)
      c2          == set_config_defaults_from_profile(c, sh)
      bad_shards  == num_shards_assert_fails(sh)
      bad_profile == ~bad_shards /\ profile_assert_fails(c, sh)
  IN  /\ shard = sh
      /\ IF bad_shards THEN cutoff_priority = 0
         ELSE cutoff_priority \in get_op_queue_cut_off(c)
      /\ osd_bandwidth_cost_per_io = IF bad_shards THEN 0 ELSE cap.cost_per_io
      /\ osd_bandwidth_capacity_per_shard =
           IF bad_shards THEN 0 ELSE cap.capacity_per_shard
      /\ conf = IF bad_shards \/ bad_profile THEN c ELSE c2
      /\ client_registry =
           IF bad_shards \/ bad_profile THEN EmptyRegistry
           ELSE update_from_config(EmptyRegistry, c2, cap.capacity_per_shard)
      /\ scheduler = << >>
      /\ high_priority = << >>
      /\ now = 0
      /\ next_seq = 1
      /\ last = Last("init", NoItem, -1, "", "", -1)
      /\ wake = NoToken
      /\ served = << >>
      /\ delivered = Delivered(c, c, {}, 0)
      /\ fatal = IF bad_shards THEN "num_shards > 0"
                 ELSE IF bad_profile THEN "Invalid choice of mclock profile"
                 ELSE ""

\* The config stores the queueing specification starts from.
BaseConf ==
  [ profile |-> "balanced", cut_off |-> "low",
    client_res |-> 0, client_wgt |-> 1, client_lim |-> 0,
    background_recovery_res |-> 0, background_recovery_wgt |-> 1,
    background_recovery_lim |-> 0,
    background_best_effort_res |-> 0, background_best_effort_wgt |-> 1,
    background_best_effort_lim |-> 0,
    iops_hdd |-> 2 * FP, iops_ssd |-> 4 * FP, bw_hdd |-> 4, bw_ssd |-> 8,
    anticipation_timeout |-> FP \div 2 ]

QueueConfs == { [ BaseConf EXCEPT !.cut_off = co ] : co \in {"low"} }

BaseShard == [ num_shards |-> 1, shard_id |-> 0, is_rotational |-> TRUE ]

Init ==
  /\ NoPeers
  /\ NoIndex
  /\ \E c \in QueueConfs : Constructed(c, BaseShard)

\* ------------------------------------------------------------------ actions
Running == fatal = ""

ConfigUnchanged ==
  /\ UNCHANGED << conf, shard, cutoff_priority, osd_bandwidth_cost_per_io,
                  osd_bandwidth_capacity_per_shard, client_registry,
                  delivered >>
  /\ PeersUnchanged
  /\ IndexUnchanged

\* The routing decision of enqueue: the bypass bucket of the item, or
\* ToScheduler when the item goes to the tag engine.
ToScheduler == -1

\* Variant: the class test is left out, immediate items route by priority.
enqueue_bucket_no_immediate(item) ==
  IF item.priority >= cutoff_priority THEN item.priority ELSE ToScheduler

\* Variant: an immediate item below the cutoff goes to the tag engine.
enqueue_bucket_immediate_above_cutoff(item) ==
  IF item.priority < cutoff_priority THEN ToScheduler
  ELSE IF item.klass = "immediate" THEN immediate_class_priority
  ELSE item.priority

\* Variant: the cutoff test is strict.
enqueue_bucket_strict(item) ==
  IF item.klass = "immediate" THEN immediate_class_priority
  ELSE IF item.priority > cutoff_priority THEN item.priority
  ELSE ToScheduler

enqueue_bucket(item) ==
  IF item.klass = "immediate" THEN immediate_class_priority
  ELSE IF item.priority >= cutoff_priority THEN item.priority
  ELSE ToScheduler

\* mClockScheduler::enqueue(item)
enqueue(item) ==
  LET id     == get_scheduler_id(item)
      bucket == enqueue_bucket(item)
  IN  /\ Running
      /\ IF bucket # ToScheduler THEN
           /\ high_priority' = enqueue_high(high_priority, bucket, item, FALSE)
           /\ last' = Last("enqueue", item, bucket, "", "", -1)
           /\ UNCHANGED << scheduler, fatal >>
         ELSE IF get_info_asserts(id) THEN
           \* add_request calls get_info(id) for the ClientInfo of the id
           /\ fatal' = "Cannot schedule immediate"
           /\ last' = Last("enqueue", item, bucket, "abort", "scheduler", -1)
           /\ UNCHANGED << scheduler, high_priority >>
         ELSE
           /\ scheduler' = add_request(scheduler, item, id,
                                       calc_scaled_cost(item.cost), now,
                                       get_info(client_registry, id))
           /\ last' = Last("enqueue", item, bucket, "", "", -1)
           /\ UNCHANGED << high_priority, fatal >>
      /\ UNCHANGED now
      /\ ConfigUnchanged

\* Variant: a sub-cutoff item keeps its own priority as bucket.
enqueue_front_bucket_by_priority(item) ==
  IF item.klass = "immediate" THEN immediate_class_priority
  ELSE item.priority

\* Variant: a sub-cutoff item goes to the topmost bucket.
enqueue_front_bucket_top(item) ==
  IF item.klass = "immediate" THEN immediate_class_priority
  ELSE IF item.priority >= cutoff_priority THEN item.priority
  ELSE immediate_class_priority

\* The routing decision of enqueue_front: always a bypass bucket.
enqueue_front_bucket(item) ==
  IF item.klass = "immediate" THEN immediate_class_priority
  ELSE IF item.priority >= cutoff_priority THEN item.priority
  ELSE 0

\* mClockScheduler::enqueue_front(item)
enqueue_front(item) ==
  LET bucket == enqueue_front_bucket(item)
  IN  /\ Running
      /\ high_priority' = enqueue_high(high_priority, bucket, item, TRUE)
      /\ last' = Last("enqueue_front", item, bucket, "", "", -1)
      /\ UNCHANGED << scheduler, now, fatal >>
      /\ ConfigUnchanged

\* The bypass branch of dequeue, taking from bucket k: the item at the back
\* of the deque is returned, and the bucket is erased when erase_empty and
\* the pop emptied it.
DequeueHighAt(k, erase_empty) ==
  LET bucket == high_priority[k]
  IN  IF bucket = << >> THEN
        \* assert(!iter->second.empty())
        /\ fatal' = "high_priority entries are never empty"
        /\ last' = Last("dequeue", NoItem, k, "abort", "high_priority", -1)
        /\ UNCHANGED << high_priority, scheduler >>
      ELSE
        LET ret  == bucket[Len(bucket)]
            rest == SubSeq(bucket, 1, Len(bucket) - 1)
        IN  /\ high_priority' =
                 IF rest = << >> /\ erase_empty
                 THEN [ x \in DOMAIN high_priority \ {k} |-> high_priority[x] ]
                 ELSE [ high_priority EXCEPT ![k] = rest ]
            /\ last' = Last("dequeue", ret, k, "item", "high_priority", -1)
            /\ UNCHANGED << scheduler, fatal >>

\* Variant: the bucket of the lowest priority is served.
dequeue_high_lowest == DequeueHighAt(SetMin(DOMAIN high_priority), TRUE)

\* Variant: an emptied bucket stays in the map.
dequeue_high_keep_empty ==
  DequeueHighAt(HighPriorityBegin(high_priority), FALSE)

\* Variant: the item at the back is returned and left in its bucket.
dequeue_high_without_pop ==
  LET k      == HighPriorityBegin(high_priority)
      bucket == high_priority[k]
  IN  /\ last' = Last("dequeue", bucket[Len(bucket)], k, "item",
                      "high_priority", -1)
      /\ UNCHANGED << high_priority, scheduler, fatal >>

dequeue_high == DequeueHighAt(HighPriorityBegin(high_priority), TRUE)

\* Variant: a throttled tag engine is taken for an empty one.
dequeue_scheduler_future_as_none ==
  LET result == pull_request(scheduler, now)
  IN  IF result.kind = "retn" THEN
        /\ scheduler' = pop_request(scheduler, result.id, now)
        /\ last' = Last("dequeue", HeadReq(scheduler, result.id).item, -1,
                        "item", "scheduler", -1)
        /\ UNCHANGED << high_priority, fatal >>
      ELSE
        /\ fatal' = "Impossible, must have checked empty() first"
        /\ last' = Last("dequeue", NoItem, -1, "abort", "scheduler", -1)
        /\ UNCHANGED << scheduler, high_priority >>

\* Variant: an empty tag engine answers with a future token for now.
dequeue_scheduler_none_as_future ==
  LET result == pull_request(scheduler, now)
  IN  IF result.kind = "retn" THEN
        /\ scheduler' = pop_request(scheduler, result.id, now)
        /\ last' = Last("dequeue", HeadReq(scheduler, result.id).item, -1,
                        "item", "scheduler", -1)
        /\ UNCHANGED << high_priority, fatal >>
      ELSE
        /\ last' = Last("dequeue", NoItem, -1, "future", "scheduler",
                        IF result.kind = "future" THEN result.time ELSE now)
        /\ UNCHANGED << scheduler, high_priority, fatal >>

\* The tag-engine branch of dequeue.
dequeue_scheduler ==
  LET result == pull_request(scheduler, now)
  IN  IF result.kind = "future" THEN
        /\ last' = Last("dequeue", NoItem, -1, "future", "scheduler",
                        result.time)
        /\ UNCHANGED << scheduler, high_priority, fatal >>
      ELSE IF result.kind = "none" THEN
        /\ fatal' = "Impossible, must have checked empty() first"
        /\ last' = Last("dequeue", NoItem, -1, "abort", "scheduler", -1)
        /\ UNCHANGED << scheduler, high_priority >>
      ELSE
        /\ scheduler' = pop_request(scheduler, result.id, now)
        /\ last' = Last("dequeue", HeadReq(scheduler, result.id).item, -1,
                        "item", "scheduler", -1)
        /\ UNCHANGED << high_priority, fatal >>

\* Variant: the tag engine is asked first whenever it holds a request.
dequeue_scheduler_first ==
  /\ Running
  /\ IF Pending(scheduler) # {} THEN dequeue_scheduler
     ELSE IF DOMAIN high_priority # {} THEN dequeue_high
     ELSE dequeue_scheduler
  /\ UNCHANGED now
  /\ ConfigUnchanged

\* Variant: the tag engine is not asked; its requests are answered with a
\* future token for now.
dequeue_bypass_only ==
  /\ Running
  /\ IF DOMAIN high_priority # {} THEN dequeue_high
     ELSE /\ last' = Last("dequeue", NoItem, -1, "future", "scheduler", now)
          /\ UNCHANGED << scheduler, high_priority, fatal >>
  /\ UNCHANGED now
  /\ ConfigUnchanged

\* mClockScheduler::dequeue()
dequeue ==
  /\ Running
  /\ IF DOMAIN high_priority # {} THEN dequeue_high ELSE dequeue_scheduler
  /\ UNCHANGED now
  /\ ConfigUnchanged

\* The monotonic clock advances.
Tick ==
  /\ Running
  /\ now < MaxNow
  /\ now' = now + 1
  /\ last' = Last("tick", NoItem, -1, "", "", -1)
  /\ UNCHANGED << scheduler, high_priority, fatal >>
  /\ ConfigUnchanged

\* The tag engine's cleaning pass discards the expired idle clients.
do_clean ==
  /\ Running
  /\ Expired(scheduler, conf, now) # {}
  /\ scheduler' = [ i \in DOMAIN scheduler \ Expired(scheduler, conf, now) |->
                      scheduler[i] ]
  /\ last' = Last("clean", NoItem, -1, "", "", -1)
  /\ UNCHANGED << high_priority, now, fatal >>
  /\ ConfigUnchanged

\* A future token is remembered until the step after the one that answered it.
KeepToken == wake' = IF wake.item = NoItem THEN wake ELSE NoToken

\* A producer hands over the next item.
Enqueue ==
  /\ next_seq <= MaxEnq
  /\ \E item \in InputItems(next_seq, FALSE) : enqueue(item)
  /\ next_seq' = next_seq + 1
  /\ KeepToken
  /\ UNCHANGED served

EnqueueFront ==
  /\ next_seq <= MaxEnq
  /\ \E item \in InputItems(next_seq, TRUE) : enqueue_front(item)
  /\ next_seq' = next_seq + 1
  /\ KeepToken
  /\ UNCHANGED served

\* The consumer calls dequeue; it keeps the wake-up time of a future token
\* until a work item is returned.
TokenAfterDequeue ==
  wake' = IF last'.kind = "future"
            THEN [ time |-> last'.time, item |-> NoItem ]
          ELSE IF last'.kind = "item" /\ wake.time >= 0 /\ wake.item = NoItem
            THEN [ wake EXCEPT !.item = last'.item ]
          ELSE IF wake.item = NoItem THEN wake ELSE NoToken

Dequeue ==
  /\ dequeue
  /\ TokenAfterDequeue
  /\ UNCHANGED << next_seq, served >>

Clock == Tick /\ KeepToken /\ UNCHANGED << next_seq, served >>

Clean == do_clean /\ KeepToken /\ UNCHANGED << next_seq, served >>

Next == Enqueue \/ EnqueueFront \/ Dequeue \/ Clock \/ Clean

Spec == Init /\ [][Next]_vars

\* --------------------------------------------------- configuration changes
MaxConfChanges == 1
MaxShards == 2

IopsKeys == { "iops_hdd", "iops_ssd" }
BandwidthKeys == { "bw_hdd", "bw_ssd" }
QosKeys ==
  { "client_res", "client_wgt", "client_lim",
    "background_recovery_res", "background_recovery_wgt",
    "background_recovery_lim",
    "background_best_effort_res", "background_best_effort_wgt",
    "background_best_effort_lim" }

\* The state handle_conf_change leaves, c being the store at the time of the
\* call. refresh: the registry is recomputed after the capacity parameters;
\* any_profile: a per-class key refreshes the registry whatever the profile.
ConfChanged(c, changed, refresh, any_profile) ==
  LET cap0 == [ cost_per_io        |-> osd_bandwidth_cost_per_io,
                capacity_per_shard |-> osd_bandwidth_capacity_per_shard ]
      iops == changed \cap IopsKeys # {}
      cap1 == IF iops THEN set_osd_capacity_params_from_config(c, shard)
              ELSE cap0
      reg1 == IF iops /\ refresh
              THEN update_from_config(client_registry, c,
                                      cap1.capacity_per_shard)
              ELSE client_registry
      bw   == changed \cap BandwidthKeys # {}
      cap2 == IF bw THEN set_osd_capacity_params_from_config(c, shard)
              ELSE cap1
      reg2 == IF bw /\ refresh
              THEN update_from_config(reg1, c, cap2.capacity_per_shard)
              ELSE reg1
      prof == "profile" \in changed
      bad  == prof /\ profile_assert_fails(c, shard)
      c3   == IF prof /\ ~bad THEN set_config_defaults_from_profile(c, shard)
              ELSE c
      reg3 == IF prof /\ ~bad
              THEN update_from_config(reg2, c3, cap2.capacity_per_shard)
              ELSE reg2
      qos  == /\ ~bad
              /\ changed \cap QosKeys # {}
              /\ (any_profile \/ c3.profile = "custom")
      reg4 == IF qos
              THEN update_from_config(reg3, c3, cap2.capacity_per_shard)
              ELSE reg3
  IN  /\ conf' = c3
      /\ osd_bandwidth_cost_per_io' = cap2.cost_per_io
      /\ osd_bandwidth_capacity_per_shard' = cap2.capacity_per_shard
      /\ client_registry' = reg4
      /\ fatal' = IF bad THEN "Invalid choice of mclock profile" ELSE fatal

\* Variant: the capacity parameters are recomputed, the registry is not.
handle_conf_change_stale_registry(c, changed) ==
  ConfChanged(c, changed, FALSE, FALSE)

\* Variant: a per-class key refreshes the registry under every profile.
handle_conf_change_qos_any_profile(c, changed) ==
  ConfChanged(c, changed, TRUE, TRUE)

\* mClockScheduler::handle_conf_change(conf, changed)
handle_conf_change(c, changed) == ConfChanged(c, changed, TRUE, FALSE)

\* The store notifies the scheduler: before is the store before the edit, c
\* the store the handler reads, changed the keys of the notification.
Notify(before, c, changed) ==
  /\ handle_conf_change(c, changed)
  /\ delivered' = Delivered(before, c, changed, delivered.count + 1)
  /\ last' = Last("handle_conf_change", NoItem, -1, "", "", -1)
  /\ UNCHANGED << shard, cutoff_priority, scheduler, high_priority, now,
                  next_seq, wake, served >>
  /\ PeersUnchanged
  /\ IndexUnchanged

\* The operator sets key to value v in the config store, and the store
\* notifies the scheduler of the key that changed.
ConfSet(key, v) ==
  LET c == [ conf EXCEPT ![key] = v ]
  IN  c # conf /\ Notify(conf, c, {key})

ProfileInputs == KnownProfiles \cup { "bogus" }
RatioInputs == { 0, FP \div 5, FP }
WeightInputs == { 1, 3 }
IopsInputs == { 0, 2 * FP }
BandwidthInputs == { 0, 4 }

\* Notifications are delivered to a running scheduler.
Observing == Running /\ delivered.count < MaxConfChanges

ProfileChange ==
  /\ Observing
  /\ \E v \in ProfileInputs : ConfSet("profile", v)

IopsChange ==
  /\ Observing
  /\ \E key \in IopsKeys, v \in IopsInputs : ConfSet(key, v)

BandwidthChange ==
  /\ Observing
  /\ \E key \in BandwidthKeys, v \in BandwidthInputs : ConfSet(key, v)

QosChange ==
  /\ Observing
  /\ \E key \in QosKeys :
       \E v \in IF key \in { "client_wgt", "background_recovery_wgt",
                              "background_best_effort_wgt" }
                THEN WeightInputs ELSE RatioInputs :
         ConfSet(key, v)

\* The operator sets a capacity key and another key at once; the store sends
\* one notification for both.
BatchChange ==
  /\ Observing
  /\ \E k1 \in { "bw_hdd", "iops_ssd" }, k2 \in { "profile", "client_res" } :
       \E v1 \in IF k1 = "bw_hdd" THEN BandwidthInputs ELSE IopsInputs,
          v2 \in IF k2 = "profile" THEN ProfileInputs ELSE RatioInputs :
         LET c == [ conf EXCEPT ![k1] = v1, ![k2] = v2 ]
         IN  /\ c[k1] # conf[k1] /\ c[k2] # conf[k2]
             /\ Notify(conf, c, { k1, k2 })

\* The store notifies the scheduler of the profile although its name is the
\* one the scheduler has applied last.
ProfileRenotify ==
  /\ Observing
  /\ delivered.count = 0 \/ "profile" \in delivered.changed
  /\ Notify(conf, conf, { "profile" })

\* The per-class values an operator has set.
OperatorConf ==
  [ BaseConf EXCEPT !.client_res = FP \div 5, !.client_wgt = 3,
                    !.client_lim = FP,
                    !.background_recovery_res = FP \div 5,
                    !.background_best_effort_lim = FP \div 5 ]

ConfInputs ==
  { [ q EXCEPT !.profile = p, !.bw_hdd = bw, !.iops_hdd = io ] :
      q \in { BaseConf, OperatorConf }, p \in ProfileInputs,
      bw \in BandwidthInputs, io \in IopsInputs }

ConfShards ==
  { [ num_shards |-> n, shard_id |-> i, is_rotational |-> r ] :
      n \in 1..MaxShards, i \in 0..(MaxShards - 1), r \in BOOLEAN }

InitConf ==
  /\ NoPeers
  /\ NoIndex
  /\ \E c \in ConfInputs, sh \in ConfShards :
       sh.shard_id < sh.num_shards /\ Constructed(c, sh)

NextConf ==
  \/ ProfileChange \/ IopsChange \/ BandwidthChange \/ QosChange
  \/ BatchChange \/ ProfileRenotify

SpecConf == InitConf /\ [][NextConf]_vars

\* ------------------------------------------- costs and capacity settings
\* The declared costs of the cost specification: the least int, negative,
\* zero, small and large ones.
CostInputs == { -2147483647 - 1, -1, 0, 1, 3, 1000000 }

CostItems(n) ==
  { Item("client", CEPH_MSG_PRIO_LOW - 1, c, 0, n, FALSE) : c \in CostInputs }

\* Capacity settings with osd_bandwidth_cost_per_io 0.5, 1, 2.5, 4, 5 and 8.
CostConfs ==
  { [ BaseConf EXCEPT !.bw_hdd = bw, !.iops_hdd = iops ] :
      bw \in { 0, 1, 5, 8 }, iops \in { 0, 2 * FP } }

CostShards ==
  { [ BaseShard EXCEPT !.num_shards = n ] : n \in { 0, 1, 2 } }

InitCost ==
  /\ NoPeers
  /\ NoIndex
  /\ \E c \in CostConfs, sh \in CostShards : Constructed(c, sh)

EnqueueCost ==
  /\ next_seq <= MaxEnq
  /\ \E item \in CostItems(next_seq) : enqueue(item)
  /\ next_seq' = next_seq + 1
  /\ KeepToken
  /\ UNCHANGED served

NextCost == EnqueueCost \/ Dequeue \/ Clock

SpecCost == InitCost /\ [][NextCost]_vars

\* -------------------------------------------------- tags of the tag engine
MaxTagNow == 2

\* Ratios that give, with a capacity of 2 bytes/s and requests of cost 2,
\* tag increments of 1, 2 and 4 time units.
TagRatios == { FP, FP \div 2, FP \div 4 }

\* Stores of the custom profile: every reservation and limit of the client
\* class, and a recovery class within its limit or at it.
TagConfs ==
  { [ BaseConf EXCEPT !.profile = "custom", !.bw_hdd = 2, !.iops_hdd = 2 * FP,
                      !.client_res = cr, !.client_lim = cl,
                      !.background_recovery_res = rr[1],
                      !.background_recovery_lim = rr[2],
                      !.background_recovery_wgt = 2 ] :
      cr \in TagRatios, cl \in TagRatios,
      rr \in { << FP \div 2, FP >>, << FP \div 4, FP \div 4 >> } }

TagItems(n) ==
  { Item(k, CEPH_MSG_PRIO_LOW - 1, 2, 0, n, FALSE) :
      k \in { "client", "background_recovery" } }

InitTags ==
  /\ NoPeers
  /\ NoIndex
  /\ \E c \in TagConfs : Constructed(c, BaseShard)

EnqueueTags ==
  /\ next_seq <= MaxEnq
  /\ \E item \in TagItems(next_seq) : enqueue(item)
  /\ next_seq' = next_seq + 1
  /\ KeepToken
  /\ UNCHANGED served

\* The consumer calls dequeue; a request the tag engine returns is recorded
\* with its client, the time and the cost it was admitted with.
DequeueTags ==
  /\ dequeue
  /\ TokenAfterDequeue
  /\ served' =
       IF last'.kind = "item" /\ last'.via = "scheduler"
       THEN LET id == get_scheduler_id(last'.item)
            IN  Append(served, [ id |-> id, time |-> now,
                                 cost |-> HeadReq(scheduler, id).cost ])
       ELSE served
  /\ UNCHANGED next_seq

ClockTags ==
  /\ Running
  /\ now < MaxTagNow
  /\ now' = now + 1
  /\ last' = Last("tick", NoItem, -1, "", "", -1)
  /\ KeepToken
  /\ ConfigUnchanged
  /\ UNCHANGED << scheduler, high_priority, fatal, next_seq, served >>

NextTags == EnqueueTags \/ DequeueTags \/ ClockTags \/ Clean

SpecTags == InitTags /\ [][NextTags]_vars

\* ------------------------------------------- several shards on one store
MaxEdits == 2

\* The members of a scheduler instance that its constructor and
\* handle_conf_change write, as one record.
Instance(sh, cap, reg) ==
  [ shard |-> sh, osd_bandwidth_cost_per_io |-> cap.cost_per_io,
    osd_bandwidth_capacity_per_shard |-> cap.capacity_per_shard,
    client_registry |-> reg ]

\* The instance the constructor builds on shard sh from store c.
ConstructedInstance(c, sh) ==
  LET cap == set_osd_capacity_params_from_config(c, sh)
      c2  == set_config_defaults_from_profile(c, sh)
  IN  Instance(sh, cap,
               update_from_config(EmptyRegistry, c2, cap.capacity_per_shard))

\* handle_conf_change(conf, changed) on instance p, c being the store at the
\* time of the call: the store and the instance afterwards.
handle_conf_change_at(p, c, changed) ==
  LET cap0 == [ cost_per_io        |-> p.osd_bandwidth_cost_per_io,
                capacity_per_shard |-> p.osd_bandwidth_capacity_per_shard ]
      iops == changed \cap IopsKeys # {}
      cap1 == IF iops THEN set_osd_capacity_params_from_config(c, p.shard)
              ELSE cap0
      reg1 == IF iops
              THEN update_from_config(p.client_registry, c,
                                      cap1.capacity_per_shard)
              ELSE p.client_registry
      bw   == changed \cap BandwidthKeys # {}
      cap2 == IF bw THEN set_osd_capacity_params_from_config(c, p.shard)
              ELSE cap1
      reg2 == IF bw
              THEN update_from_config(reg1, c, cap2.capacity_per_shard)
              ELSE reg1
      prof == "profile" \in changed
      bad  == prof /\ profile_assert_fails(c, p.shard)
      c3   == IF prof /\ ~bad
              THEN set_config_defaults_from_profile(c, p.shard)
              ELSE c
      reg3 == IF prof /\ ~bad
              THEN update_from_config(reg2, c3, cap2.capacity_per_shard)
              ELSE reg2
      qos  == ~bad /\ changed \cap QosKeys # {} /\ c3.profile = "custom"
      reg4 == IF qos
              THEN update_from_config(reg3, c3, cap2.capacity_per_shard)
              ELSE reg3
  IN  [ conf |-> c3, instance |-> Instance(p.shard, cap2, reg4), bad |-> bad ]

\* The store queues a notification of the keys in changed for every shard.
Queued(q, changed) ==
  IF changed = {} THEN q
  ELSE [ i \in DOMAIN q |-> Append(q[i], changed) ]

\* Shard i has taken the first notification of its queue.
Taken(q, i) == [ q EXCEPT ![i] = Tail(q[i]) ]

\* The keys whose value differs between stores c and d.
Written(c, d) == { k \in DOMAIN c : c[k] # d[k] }

\* The operator sets osd_mclock_profile to another built-in profile.
OperatorProfile ==
  /\ Running
  /\ edits < MaxEdits
  /\ \E v \in BuiltinProfiles \ { conf.profile } :
       conf' = [ conf EXCEPT !.profile = v ]
  /\ inbox' = Queued(inbox, { "profile" })
  /\ edits' = edits + 1
  /\ last' = Last("set", NoItem, -1, "", "", -1)
  /\ UNCHANGED << shard, cutoff_priority, osd_bandwidth_cost_per_io,
                  osd_bandwidth_capacity_per_shard, client_registry,
                  scheduler, high_priority, now, next_seq, wake, served,
                  delivered, fatal, peers >>
  /\ IndexUnchanged

\* The operator sets the sequential bandwidth of the device.
OperatorBandwidth ==
  /\ Running
  /\ edits < MaxEdits
  /\ \E key \in BandwidthKeys, v \in BandwidthInputs :
       /\ v # conf[key]
       /\ conf' = [ conf EXCEPT ![key] = v ]
       /\ inbox' = Queued(inbox, { key })
  /\ edits' = edits + 1
  /\ last' = Last("set", NoItem, -1, "", "", -1)
  /\ UNCHANGED << shard, cutoff_priority, osd_bandwidth_cost_per_io,
                  osd_bandwidth_capacity_per_shard, client_registry,
                  scheduler, high_priority, now, next_seq, wake, served,
                  delivered, fatal, peers >>
  /\ IndexUnchanged

\* The store delivers to shard 0 the first notification of its queue; the
\* keys the handler writes are queued for every shard.
DeliverShardZero ==
  /\ Running
  /\ inbox[0] # << >>
  /\ handle_conf_change(conf, Head(inbox[0]))
  /\ inbox' = Queued(Taken(inbox, 0), Written(conf, conf'))
  /\ delivered' = Delivered(conf, conf, Head(inbox[0]), delivered.count + 1)
  /\ last' = Last("handle_conf_change", NoItem, -1, "", "", -1)
  /\ UNCHANGED << shard, cutoff_priority, scheduler, high_priority, now,
                  next_seq, wake, served, peers, edits >>
  /\ IndexUnchanged

\* The store delivers to a shard with shard_id > 0 the first notification of
\* its queue.
DeliverPeer ==
  /\ Running
  /\ \E i \in DOMAIN peers :
       /\ inbox[i] # << >>
       /\ LET r == handle_conf_change_at(peers[i], conf, Head(inbox[i]))
          IN  /\ conf' = r.conf
              /\ peers' = [ peers EXCEPT ![i] = r.instance ]
              /\ inbox' = Queued(Taken(inbox, i), Written(conf, r.conf))
              /\ fatal' = IF r.bad THEN "Invalid choice of mclock profile"
                          ELSE fatal
  /\ last' = Last("handle_conf_change", NoItem, -1, "", "", -1)
  /\ UNCHANGED << shard, cutoff_priority, osd_bandwidth_cost_per_io,
                  osd_bandwidth_capacity_per_shard, client_registry,
                  scheduler, high_priority, now, next_seq, wake, served,
                  delivered, edits >>
  /\ IndexUnchanged

\* The stores and the devices the shards start on.
ShardConfs == { [ BaseConf EXCEPT !.profile = v ] : v \in BuiltinProfiles }

\* Shard 0 is constructed first, then the shards with shard_id > 0, all on
\* the same store.
InitShards ==
  /\ NoIndex
  /\ \E c \in ShardConfs, n \in 2..MaxShards, r \in BOOLEAN :
       /\ Constructed(c, [ num_shards |-> n, shard_id |-> 0,
                           is_rotational |-> r ])
       /\ peers = [ i \in 1..(n - 1) |->
                      ConstructedInstance(
                        set_config_defaults_from_profile(
                          c, [ num_shards |-> n, shard_id |-> 0,
                               is_rotational |-> r ]),
                        [ num_shards |-> n, shard_id |-> i,
                          is_rotational |-> r ]) ]
       /\ inbox = [ i \in 0..(n - 1) |-> << >> ]
  /\ edits = 0

NextShards ==
  OperatorProfile \/ OperatorBandwidth \/ DeliverShardZero \/ DeliverPeer

SpecShards == InitShards /\ [][NextShards]_vars

\* ------------------------------------------------------ the cutoff selector
CutoffInputs == { "low", "high", "debug_random", "none" }

CutoffConfs == { [ BaseConf EXCEPT !.cut_off = co ] : co \in CutoffInputs }

CutoffItems(n, f) ==
  { Item("client", p, 1, 0, n, f) : p \in Priorities }
    \cup { Item("immediate", CEPH_MSG_PRIO_LOW - 1, 1, 0, n, f) }

InitCutoff ==
  /\ NoPeers
  /\ NoIndex
  /\ \E c \in CutoffConfs : Constructed(c, BaseShard)

EnqueueCutoff ==
  /\ next_seq <= MaxEnq
  /\ \E item \in CutoffItems(next_seq, FALSE) : enqueue(item)
  /\ next_seq' = next_seq + 1
  /\ KeepToken
  /\ UNCHANGED served

EnqueueFrontCutoff ==
  /\ next_seq <= MaxEnq
  /\ \E item \in CutoffItems(next_seq, TRUE) : enqueue_front(item)
  /\ next_seq' = next_seq + 1
  /\ KeepToken
  /\ UNCHANGED served

\* The operator sets osd_op_queue_cut_off to "high"; the key is not among the tracked
\* keys, so the store notifies nobody.
CutoffEdit ==
  /\ Running
  /\ conf.cut_off # "high"
  /\ conf' = [ conf EXCEPT !.cut_off = "high" ]
  /\ last' = Last("set", NoItem, -1, "", "", -1)
  /\ UNCHANGED << shard, cutoff_priority, osd_bandwidth_cost_per_io,
                  osd_bandwidth_capacity_per_shard, client_registry,
                  scheduler, high_priority, now, next_seq, wake, served,
                  delivered, fatal >>
  /\ PeersUnchanged
  /\ IndexUnchanged

\* The operator sets a tracked key, and the store notifies the scheduler.
TrackedEdit ==
  /\ Observing
  /\ ConfSet("profile", "custom")

NextCutoff ==
  \/ EnqueueCutoff \/ EnqueueFrontCutoff \/ Dequeue \/ Clock
  \/ CutoffEdit \/ TrackedEdit

SpecCutoff == InitCutoff /\ [][NextCutoff]_vars

\* ------------------------------------------------------ registry lookups
\* The ids get_info may be called with.
LookupIds ==
  { [ class_id |-> k, client_profile_id |-> pid ] :
      k \in Classes, pid \in { 0, 1 } }

\* What a call of get_info has returned: the entry, or the assertion.
LookedUp(id, kind, info) ==
  [ op |-> "get_info", item |-> NoItem, bucket |-> -1, kind |-> kind,
    via |-> "", time |-> -1, id |-> id, info |-> info ]

\* The tag engine calls the bound ClientRegistry::get_info for an id.
GetInfo ==
  /\ Running
  /\ \E id \in LookupIds :
       IF get_info_asserts(id) THEN
         /\ fatal' = "Cannot schedule immediate"
         /\ last' = LookedUp(id, "abort", ClientInfo(0, 0, 0))
       ELSE
         /\ last' = LookedUp(id, "info", get_info(client_registry, id))
         /\ UNCHANGED fatal
  /\ UNCHANGED << scheduler, high_priority, now, next_seq, wake, served >>
  /\ ConfigUnchanged

InitRegistry ==
  /\ NoPeers
  /\ NoIndex
  /\ \E c \in ConfInputs : Constructed(c, BaseShard)

NextRegistry == GetInfo \/ ProfileChange \/ QosChange

SpecRegistry == InitRegistry /\ [][NextRegistry]_vars

\* ------------------------------------------------------------------ drain
DrainConfs == { c \in TagConfs : c.client_res = c.client_lim }

DrainItems(n, f) ==
  { Item(k, CEPH_MSG_PRIO_LOW - 1, 2, 0, n, f) :
      k \in { "client", "background_recovery" } }
    \cup { Item("client", CEPH_MSG_PRIO_HIGH, 2, 0, n, f) }

InitDrain ==
  /\ NoPeers
  /\ NoIndex
  /\ \E c \in DrainConfs : Constructed(c, BaseShard)

\* The producers enqueue up to time MaxNow.
EnqueueDrain ==
  /\ next_seq <= MaxEnq
  /\ now <= MaxNow
  /\ \E item \in DrainItems(next_seq, FALSE) : enqueue(item)
  /\ next_seq' = next_seq + 1
  /\ KeepToken
  /\ UNCHANGED served

EnqueueFrontDrain ==
  /\ next_seq <= MaxEnq
  /\ now <= MaxNow
  /\ \E item \in DrainItems(next_seq, TRUE) : enqueue_front(item)
  /\ next_seq' = next_seq + 1
  /\ KeepToken
  /\ UNCHANGED served

\* The consumer calls dequeue while the scheduler is not empty.
DequeueDrain ==
  /\ HighSize(high_priority) + request_count(scheduler) > 0
  /\ dequeue
  /\ TokenAfterDequeue
  /\ UNCHANGED << next_seq, served >>

\* The clock advances: by one while the producers enqueue, and afterwards
\* to the time of the future token, when the consumer's timer calls dequeue
\* again.
ClockDrain ==
  /\ Running
  /\ IF now <= MaxNow THEN now' = now + 1
     ELSE /\ last.op = "dequeue" /\ last.kind = "future" /\ last.time > now
          /\ now' = last.time
  /\ last' = Last("tick", NoItem, -1, "", "", -1)
  /\ KeepToken
  /\ ConfigUnchanged
  /\ UNCHANGED << scheduler, high_priority, fatal, next_seq, served >>

NextDrain ==
  EnqueueDrain \/ EnqueueFrontDrain \/ DequeueDrain \/ ClockDrain \/ Clean

\* The clock keeps advancing and the consumer keeps calling dequeue.
SpecDrain ==
  /\ InitDrain
  /\ [][NextDrain]_vars
  /\ WF_vars(ClockDrain)
  /\ WF_vars(DequeueDrain)

\* ----------------------------------------------------------- bucket index
MaxIndexShards == 2
MaxCalls == 1

\* errno values, returned negated.
EIO == 5
EEXIST == 17
ENOTSUP == 95

\* dir_oid_prefix followed by the bucket id, and the generations of an index
\* layout.
dir_oid == << ".dir.", "bucket_id" >>
plain_id == << "name", ":", "bucket_id" >>
Generations == { 0, 1 }

\* snprintf(buf, len, "%s.%" PRIu64 ".%d", base, gen_id, shard_id): the
\* object name, a sequence of its parts.
bucket_obj_with_generation(bucket_oid_base, gen_id, shard_id) ==
  bucket_oid_base \o << ".", gen_id, ".", shard_id >>

\* snprintf(buf, len, "%s.%d", base, shard_id)
bucket_obj_without_generation(bucket_oid_base, shard_id) ==
  bucket_oid_base \o << ".", shard_id >>

\* The name of the index object of a shard: gen_id 0 is not part of it.
BucketObj(bucket_oid_base, gen_id, shard_id) ==
  IF gen_id # 0
  THEN bucket_obj_with_generation(bucket_oid_base, gen_id, shard_id)
  ELSE bucket_obj_without_generation(bucket_oid_base, shard_id)

\* A std::map<int, string> as a function; Put is operator[] with assignment.
EmptyMap == << >>
Put(m, k, v) == [ x \in DOMAIN m \cup {k} |-> IF x = k THEN v ELSE m[x] ]

\* get_bucket_index_objects: the map it leaves, from an empty one.
get_bucket_index_objects(bucket_oid_base, num_shards, gen_id, shard_id) ==
  IF num_shards = 0 THEN Put(EmptyMap, 0, bucket_oid_base)
  ELSE IF shard_id < 0
    THEN [ i \in 0..(num_shards - 1) |->
             BucketObj(bucket_oid_base, gen_id, i) ]
  ELSE IF shard_id > num_shards THEN EmptyMap
  ELSE Put(EmptyMap, shard_id, BucketObj(bucket_oid_base, gen_id, shard_id))

\* get_bucket_instance_ids: the map it leaves, from an empty one.
get_bucket_instance_ids(num_shards, shard_id) ==
  IF num_shards = 0 THEN Put(EmptyMap, 0, plain_id)
  ELSE IF shard_id < 0
    THEN [ i \in 0..(num_shards - 1) |-> plain_id \o << ":", i >> ]
  ELSE IF shard_id > num_shards THEN EmptyMap
  ELSE Put(EmptyMap, shard_id, plain_id \o << ":", shard_id >>)

\* No bucket index operation is under way.
Idle == call.phase \in { "idle", "done" } /\ call.seq < MaxCalls

SchedulerUnchanged ==
  /\ UNCHANGED << conf, shard, cutoff_priority, osd_bandwidth_cost_per_io,
                  osd_bandwidth_capacity_per_shard, client_registry,
                  scheduler, high_priority, now, next_seq, last, wake,
                  served, delivered, fatal >>
  /\ PeersUnchanged

\* The shard ids a caller asks for: all shards (-1), the shards of the
\* layout and two ids beyond it.
ShardIdInputs == (-1)..(MaxIndexShards + 1)

\* A caller lists the index objects of a layout.
IndexObjects ==
  /\ Idle
  /\ \E n \in 0..MaxIndexShards, g \in Generations, sid \in ShardIdInputs :
       call' = [ op |-> "get_bucket_index_objects", seq |-> call.seq + 1,
                 phase |-> "done",
                 num_shards |-> n, gen_id |-> g, shard_id |-> sid,
                 result |-> get_bucket_index_objects(dir_oid, n, g, sid) ]
  /\ UNCHANGED << index_pool, bilog, datalog >>
  /\ SchedulerUnchanged

\* A caller lists the instance ids of the shards of a bucket.
InstanceIds ==
  /\ Idle
  /\ \E n \in 0..MaxIndexShards, sid \in ShardIdInputs :
       call' = [ op |-> "get_bucket_instance_ids", seq |-> call.seq + 1,
                 phase |-> "done",
                 num_shards |-> n, gen_id |-> 0, shard_id |-> sid,
                 result |-> get_bucket_instance_ids(n, sid) ]
  /\ UNCHANGED << index_pool, bilog, datalog >>
  /\ SchedulerUnchanged

\* Variant: EEXIST is an error like any other.
on_complete_eexist_is_error(ec) == IF ec # 0 THEN "Error" ELSE "Success"

\* IndexInitWriter::on_complete: the verdict on the write of a shard that
\* ended with error code ec (0: none).
on_complete(ec) == IF ec # 0 /\ ec # EEXIST THEN "Error" ELSE "Success"

\* What the write of IndexInitWriter::prepare_write can end with for an
\* object name: op.create(true) fails with EEXIST on an object that exists;
\* the write creates the object, or fails and creates nothing.
WriteOutcomes(name) ==
  IF name \in index_pool THEN { EEXIST, EIO } ELSE { 0, EIO }

\* init_index is called for a layout: the early returns, or the writes of
\* all shard objects are handed to async_writes.
InitIndexCall ==
  /\ Idle
  /\ \E type \in { "Normal", "Indexless" }, n \in 0..MaxIndexShards,
        g \in Generations, r \in { 0, -EIO }, aio \in 1..2 :
       call' =
         IF type # "Normal" THEN
           [ op |-> "init_index", seq |-> call.seq + 1, phase |-> "done",
             type |-> type, pool_ret |-> 0, ret |-> 0, objs |-> EmptyMap,
             created |-> {}, outcome |-> EmptyMap, judged |-> EmptyMap ]
         ELSE IF r < 0 THEN
           [ op |-> "init_index", seq |-> call.seq + 1, phase |-> "done",
             type |-> type, pool_ret |-> r, ret |-> r, objs |-> EmptyMap,
             created |-> {}, outcome |-> EmptyMap, judged |-> EmptyMap ]
         ELSE
           [ op |-> "init_index", seq |-> call.seq + 1, phase |-> "writing",
             type |-> type, pool_ret |-> r, ret |-> 0,
             objs |-> get_bucket_index_objects(dir_oid, n, g, -1),
             max_aio |-> aio, inflight |-> {}, created |-> {},
             outcome |-> EmptyMap, judged |-> EmptyMap, ec |-> 0 ]
  /\ UNCHANGED << index_pool, bilog, datalog >>
  /\ SchedulerUnchanged

\* async_writes starts the write of the next shard object, in the order of
\* the map, while fewer than max_aio writes are under way and none has
\* failed.
IssueWrite ==
  /\ call.op = "init_index" /\ call.phase = "writing"
  /\ call.ec = 0
  /\ Cardinality(call.inflight) < call.max_aio
  /\ LET todo == DOMAIN call.objs \ (call.inflight \cup DOMAIN call.judged)
     IN  /\ todo # {}
         /\ call' = [ call EXCEPT !.inflight = @ \cup { SetMin(todo) } ]
  /\ UNCHANGED << index_pool, bilog, datalog >>
  /\ SchedulerUnchanged

\* A write completes and on_complete judges it; the first error is kept.
CompleteWrite ==
  /\ call.op = "init_index" /\ call.phase = "writing"
  /\ \E i \in call.inflight :
       \E e \in WriteOutcomes(call.objs[i]) :
         /\ index_pool' = IF e = 0 THEN index_pool \cup { call.objs[i] }
                          ELSE index_pool
         /\ call' = [ call EXCEPT
              !.inflight = @ \ {i},
              !.outcome = Put(@, i, e),
              !.judged = Put(@, i, on_complete(e)),
              !.created = IF e = 0 THEN @ \cup {i} ELSE @,
              !.ec = IF @ = 0 /\ on_complete(e) = "Error" THEN e ELSE @ ]
  /\ UNCHANGED << bilog, datalog >>
  /\ SchedulerUnchanged

\* After an error and the completion of the writes under way, the writes
\* judged a success are reverted: prepare_revert removes the object.
RevertWrite ==
  /\ call.op = "init_index" /\ call.phase = "writing"
  /\ call.ec # 0 /\ call.inflight = {}
  /\ \E i \in DOMAIN call.judged :
       /\ call.judged[i] = "Success"
       /\ index_pool' = index_pool \ { call.objs[i] }
       /\ call' = [ call EXCEPT !.judged = Put(@, i, "Reverted") ]
  /\ UNCHANGED << bilog, datalog >>
  /\ SchedulerUnchanged

\* init_index returns ceph::from_error_code(ec).
InitIndexReturn ==
  /\ call.op = "init_index" /\ call.phase = "writing"
  /\ call.inflight = {}
  /\ IF call.ec = 0 THEN DOMAIN call.judged = DOMAIN call.objs
     ELSE \A i \in DOMAIN call.judged : call.judged[i] # "Success"
  /\ call' = [ call EXCEPT !.phase = "done", !.ret = -call.ec ]
  /\ UNCHANGED << index_pool, bilog, datalog >>
  /\ SchedulerUnchanged

\* handle_overwrite is called: the early returns, or the bilog is written
\* and the loop over the shards of the data log starts.
OverwriteCall ==
  /\ Idle
  /\ \E old \in BOOLEAN, new \in BOOLEAN,
        logs \in { "none", "InIndex", "other" },
        n \in 1..MaxIndexShards, r \in { 0, -EIO } :
       LET begin == [ op |-> "handle_overwrite", seq |-> call.seq + 1,
                      old_sync_enabled |-> old,
                      new_sync_enabled |-> new, logs |-> logs,
                      shards_num |-> n, bilog_ret |-> r, i |-> 0,
                      failed |-> {}, logged |-> {}, wrote_bilog |-> FALSE ]
       IN  IF old = new \/ logs = "none" THEN
             /\ call' = begin @@ [ phase |-> "done", ret |-> 0 ]
             /\ UNCHANGED bilog
           ELSE IF logs # "InIndex" THEN
             /\ call' = begin @@ [ phase |-> "done", ret |-> -ENOTSUP ]
             /\ UNCHANGED bilog
           ELSE IF r < 0 THEN
             /\ call' = begin @@ [ phase |-> "done", ret |-> r ]
             /\ UNCHANGED bilog
           ELSE
             /\ call' = [ begin EXCEPT !.wrote_bilog = TRUE ]
                          @@ [ phase |-> "adding", ret |-> r ]
             /\ bilog' = IF new THEN "start" ELSE "stop"
  /\ UNCHANGED << index_pool, datalog >>
  /\ SchedulerUnchanged

\* One pass of the loop: add_entry for shard i, its result assigned to ret.
AddEntry ==
  /\ call.op = "handle_overwrite" /\ call.phase = "adding"
  /\ call.i < call.shards_num
  /\ \E r \in { 0, -EIO } :
       /\ call' = [ call EXCEPT
            !.ret = r, !.i = @ + 1,
            !.failed = IF r < 0 THEN @ \cup { call.i } ELSE @,
            !.logged = IF r < 0 THEN @ ELSE @ \cup { call.i } ]
       /\ datalog' = IF r < 0 THEN datalog ELSE Put(datalog, call.i, bilog)
  /\ UNCHANGED << index_pool, bilog >>
  /\ SchedulerUnchanged

\* handle_overwrite returns ret after the loop.
OverwriteReturn ==
  /\ call.op = "handle_overwrite" /\ call.phase = "adding"
  /\ call.i = call.shards_num
  /\ call' = [ call EXCEPT !.phase = "done" ]
  /\ UNCHANGED << index_pool, bilog, datalog >>
  /\ SchedulerUnchanged

\* The index pool may hold shard objects of the bucket already.
InitBucketIndex ==
  /\ NoPeers
  /\ Constructed(BaseConf, BaseShard)
  /\ index_pool \in { {}, { dir_oid }, { BucketObj(dir_oid, 0, 0) },
                      { BucketObj(dir_oid, 0, 1), BucketObj(dir_oid, 1, 1) } }
  /\ bilog = ""
  /\ datalog = << >>
  /\ call = NoCall

NextBucketIndex ==
  \/ IndexObjects \/ InstanceIds
  \/ InitIndexCall \/ IssueWrite \/ CompleteWrite \/ RevertWrite
  \/ InitIndexReturn
  \/ OverwriteCall \/ AddEntry \/ OverwriteReturn

SpecBucketIndex == InitBucketIndex /\ [][NextBucketIndex]_vars

\* ------------------------------------------------------------------ claims
SeqItems(q) == { q[n] : n \in 1..Len(q) }

\* The items held by the tag engine.
SchedItems(sched) ==
  UNION { { sched[i].requests[n].item : n \in 1..Len(sched[i].requests) } :
          i \in DOMAIN sched }

BucketOf(hp, k) == IF k \in DOMAIN hp THEN hp[k] ELSE << >>

\* The step is a dequeue that handed out a work item.
ReturnsItem == last'.op = "dequeue" /\ last'.kind = "item"

\* The step added item to bucket k of the bypass queue, and nothing else
\* changed in the bypass queue.
BypassGrewBy(k, item) ==
  /\ DOMAIN high_priority' = DOMAIN high_priority \cup {k}
  /\ \A j \in DOMAIN high_priority \ {k} : high_priority'[j] = high_priority[j]
  /\ Len(high_priority'[k]) = Len(BucketOf(high_priority, k)) + 1
  /\ SeqItems(high_priority'[k]) =
       SeqItems(BucketOf(high_priority, k)) \cup {item}

\* An item the bypass layer serves whichever way it is enqueued.
AboveCutoff(x) == x.klass = "immediate" \/ x.priority >= cutoff_priority

\* C1. Priority dominance: a dequeue that starts with at least one item in
\* the bypass queue returns an item of the bypass queue and leaves the tag
\* engine untouched, whatever the tags of its requests are.
C1_PriorityDominance ==
  [][ (last'.op = "dequeue" /\ HighSize(high_priority) > 0) =>
        /\ last'.kind = "item"
        /\ last'.via = "high_priority"
        /\ last'.item \in HighItems(high_priority)
        /\ last'.item \notin SchedItems(scheduler)
        /\ scheduler' = scheduler ]_vars

\* The bypass queue was served although the tag engine has a request that
\* it would hand out now.
C1_Witness ==
  /\ last.op = "dequeue" /\ last.kind = "item" /\ last.via = "high_priority"
  /\ pull_request(scheduler, now).kind = "retn"

\* C2. Strict priority between buckets: a dequeue that starts with a
\* non-empty bypass queue returns an item of the bucket with the numerically
\* highest key among the buckets present; no bucket with a higher key than
\* the served one exists.
C2_StrictPriority ==
  [][ (last'.op = "dequeue" /\ HighSize(high_priority) > 0) =>
        /\ last'.bucket \in DOMAIN high_priority
        /\ \A q \in DOMAIN high_priority : q <= last'.bucket
        /\ last'.item \in SeqItems(high_priority[last'.bucket])
        /\ last'.item \notin HighItems(high_priority') ]_vars

\* An item was returned while an item enqueued before it waits in a bucket
\* of lower priority.
C2_Witness ==
  /\ last.op = "dequeue" /\ last.kind = "item" /\ last.via = "high_priority"
  /\ \E k \in DOMAIN high_priority :
       /\ k < last.bucket
       /\ \E y \in SeqItems(high_priority[k]) : y.seq < last.item.seq

\* C3. FIFO for back-enqueues: an item that entered its bypass bucket through
\* enqueue() is returned only when no item that entered the same bucket
\* through enqueue() before it is still queued. (This holds whether or not
\* enqueue_front put items into the bucket.)
C3_FifoBackEnqueue ==
  [][ (ReturnsItem /\ last'.via = "high_priority" /\ ~last'.item.front) =>
        \A y \in SeqItems(BucketOf(high_priority, last'.bucket)) :
          ~y.front => last'.item.seq <= y.seq ]_vars

\* A back-enqueued item was returned while a later back-enqueued item of the
\* same bucket is still queued.
C3_Witness ==
  /\ last.op = "dequeue" /\ last.kind = "item" /\ last.via = "high_priority"
  /\ ~last.item.front
  /\ \E y \in SeqItems(BucketOf(high_priority, last.bucket)) :
       ~y.front /\ y.seq > last.item.seq

\* C4. LIFO for front-enqueues: an item that entered its bypass bucket
\* through enqueue_front() is returned only when no item that entered the
\* same bucket through enqueue_front() after it is still queued.
C4_LifoFrontEnqueue ==
  [][ (ReturnsItem /\ last'.via = "high_priority" /\ last'.item.front) =>
        \A y \in SeqItems(BucketOf(high_priority, last'.bucket)) :
          y.front => y.seq <= last'.item.seq ]_vars

\* A front-enqueued item was returned while an earlier front-enqueued item
\* of the same bucket is still queued.
C4_Witness ==
  /\ last.op = "dequeue" /\ last.kind = "item" /\ last.via = "high_priority"
  /\ last.item.front
  /\ \E y \in SeqItems(BucketOf(high_priority, last.bucket)) :
       y.front /\ y.seq < last.item.seq

\* C5. Immediate bypass: enqueue() of an immediate item adds it to bucket
\* immediate_class_priority whatever its message priority, and leaves the tag
\* engine alone; and no item of another class is returned while an immediate
\* item is queued.
C5_ImmediateBypass ==
  [][ /\ (last'.op = "enqueue" /\ last'.item.klass = "immediate") =>
           /\ BypassGrewBy(immediate_class_priority, last'.item)
           /\ scheduler' = scheduler
      /\ (ReturnsItem /\ last'.item.klass # "immediate") =>
           \A y \in HighItems(high_priority) \cup SchedItems(scheduler) :
             y.klass # "immediate" ]_vars

\* An immediate item of sub-cutoff message priority, entered with enqueue(),
\* was returned while an item of another class enqueued before it waits.
C5_Witness ==
  /\ last.op = "dequeue" /\ last.kind = "item"
  /\ last.item.klass = "immediate" /\ ~last.item.front
  /\ last.item.priority < cutoff_priority
  /\ \E y \in HighItems(high_priority) \cup SchedItems(scheduler) :
       y.klass # "immediate" /\ y.seq < last.item.seq

\* C6. Cutoff bypass: enqueue() of a non-immediate item with priority >=
\* cutoff_priority adds it to the bypass bucket of that priority and leaves
\* the tag engine as it was (same client_count, same request_count); the
\* dequeue that serves the bypass queue leaves the client_count as it was.
C6_CutoffBypass ==
  [][ /\ ( /\ last'.op = "enqueue"
           /\ last'.item.klass # "immediate"
           /\ last'.item.priority >= cutoff_priority ) =>
           /\ BypassGrewBy(last'.item.priority, last'.item)
           /\ scheduler' = scheduler
           /\ client_count(scheduler') = client_count(scheduler)
           /\ request_count(scheduler') = request_count(scheduler)
      /\ (ReturnsItem /\ last'.item \in HighItems(high_priority)) =>
           client_count(scheduler') = client_count(scheduler) ]_vars

\* The only item ever enqueued had a priority equal to the cutoff; it was
\* returned and the tag engine never saw a client.
C6_Witness ==
  /\ last.op = "dequeue" /\ last.kind = "item" /\ last.via = "high_priority"
  /\ last.item.klass # "immediate" /\ ~last.item.front
  /\ last.item.priority = cutoff_priority
  /\ next_seq = 2
  /\ client_count(scheduler) = 0

\* C7. Fair-share admission: enqueue() of a non-immediate item with priority
\* < cutoff_priority appends one request to the FIFO of the client (class,
\* client_profile_id) of the tag engine, with cost max(max(1, item cost),
\* cost_per_io), changes no other FIFO, so that request_count grows by 1, and
\* leaves the bypass queue unchanged.
C7_FairShareAdmission ==
  [][ ( /\ last'.op = "enqueue"
        /\ last'.item.klass # "immediate"
        /\ last'.item.priority < cutoff_priority ) =>
        LET it   == last'.item
            id   == [ class_id |-> it.klass,
                      client_profile_id |-> it.client_profile_id ]
            old  == IF id \in DOMAIN scheduler
                    THEN scheduler[id].requests ELSE << >>
        IN  /\ high_priority' = high_priority
            /\ DOMAIN scheduler' = DOMAIN scheduler \cup {id}
            /\ \A j \in DOMAIN scheduler \ {id} :
                 scheduler'[j].requests = scheduler[j].requests
            /\ Len(scheduler'[id].requests) = Len(old) + 1
            /\ SubSeq(scheduler'[id].requests, 1, Len(old)) = old
            /\ scheduler'[id].requests[Len(old) + 1].item = it
            /\ scheduler'[id].requests[Len(old) + 1].cost =
                 Max(Max(1, it.cost), osd_bandwidth_cost_per_io \div FP)
            /\ request_count(scheduler') = request_count(scheduler) + 1 ]_vars

\* An item of cost 0 was admitted to the tag engine while the bypass queue
\* holds an item.
C7_Witness ==
  /\ last.op = "enqueue" /\ last.bucket = ToScheduler
  /\ last.item.cost < 1
  /\ last.item \in SchedItems(scheduler)
  /\ HighSize(high_priority) > 0

\* C8. enqueue_front() never adds a request to the tag engine: the item goes
\* to bucket immediate_class_priority when immediate, to the bucket of its
\* priority when priority >= cutoff_priority, and to bucket 0 otherwise; the
\* tag engine (request_count, client_count) is unchanged.
C8_EnqueueFrontBypass ==
  [][ last'.op = "enqueue_front" =>
        LET it == last'.item
            b  == IF it.klass = "immediate" THEN immediate_class_priority
                  ELSE IF it.priority >= cutoff_priority THEN it.priority
                  ELSE 0
        IN  /\ BypassGrewBy(b, it)
            /\ scheduler' = scheduler
            /\ request_count(scheduler') = request_count(scheduler)
            /\ client_count(scheduler') = client_count(scheduler) ]_vars

\* A sub-cutoff item was front-enqueued into bucket 0 while the tag engine
\* holds a request.
C8_Witness ==
  /\ last.op = "enqueue_front"
  /\ ~AboveCutoff(last.item)
  /\ last.item \in SeqItems(BucketOf(high_priority, 0))
  /\ request_count(scheduler) > 0

\* C9. A sub-cutoff item entered with enqueue_front() is returned from the
\* bypass queue only when no immediate item and no item of priority >=
\* cutoff_priority is queued there, and the tag engine hands out an item only
\* when no such front-enqueued item is queued.
C9_FrontSubCutoffOrder ==
  [][ /\ (ReturnsItem /\ last'.item.front /\ ~AboveCutoff(last'.item)) =>
           /\ last'.via = "high_priority"
           /\ \A y \in HighItems(high_priority) : ~AboveCutoff(y) 
      /\ (ReturnsItem /\ last'.via = "scheduler") =>
           \A y \in HighItems(high_priority) :
             ~(y.front /\ ~AboveCutoff(y)) ]_vars

\* A front-enqueued sub-cutoff item was returned from bucket 0 while the tag
\* engine holds an item enqueued before it, which it would hand out now.
C9_Witness ==
  /\ last.op = "dequeue" /\ last.kind = "item" /\ last.bucket = 0
  /\ last.item.front /\ ~AboveCutoff(last.item)
  /\ \E y \in SchedItems(scheduler) : y.seq < last.item.seq
  /\ pull_request(scheduler, now).kind = "retn"

\* C10. HighPriorityQueue emptiness: no key of high_priority is bound to an
\* empty bucket, and the assertion of the bypass branch of dequeue has never
\* failed.
C10_NoEmptyBucket ==
  /\ \A k \in DOMAIN high_priority : high_priority[k] # << >>
  /\ fatal # "high_priority entries are never empty"

\* A dequeue removed the last item of a bucket: its key is gone, and another
\* bucket is still there.
C10_Witness ==
  /\ last.op = "dequeue" /\ last.kind = "item" /\ last.via = "high_priority"
  /\ last.bucket \notin DOMAIN high_priority
  /\ DOMAIN high_priority # {}

\* The head request of client i is throttled at time t: its reservation tag
\* and its limit tag are both in the future.
Throttled(sched, i, t) ==
  HeadReq(sched, i).r > t /\ HeadReq(sched, i).l > t

\* C11. Future token: a dequeue that starts with an empty bypass queue and a
\* tag engine whose pending head requests are all throttled returns a future
\* token carrying a wake-up time after now, removes no item and leaves the
\* tag engine and the bypass queue as they were; a dequeue called at or
\* after the wake-up time of a token that no work item answered yet returns
\* a work item.
C11_FutureToken ==
  [][ /\ ( /\ last'.op = "dequeue"
           /\ DOMAIN high_priority = {}
           /\ Pending(scheduler) # {}
           /\ \A i \in Pending(scheduler) : Throttled(scheduler, i, now) ) =>
          /\ last'.kind = "future"
          /\ last'.item = NoItem
          /\ last'.time > now
          /\ wake'.time = last'.time
          /\ scheduler' = scheduler
          /\ request_count(scheduler') = request_count(scheduler)
          /\ high_priority' = high_priority
          /\ fatal' = ""
      /\ ( /\ last'.op = "dequeue"
           /\ wake.time >= 0 /\ wake.item = NoItem
           /\ now >= wake.time ) =>
          /\ last'.kind = "item"
          /\ last'.item # NoItem
          /\ last'.item \in SchedItems(scheduler) \cup HighItems(high_priority)
    ]_vars

\* A token was handed out, the clock reached its wake-up time and the next
\* dequeue took a work item out of the tag engine.
C11_Witness ==
  /\ last.op = "dequeue" /\ last.kind = "item" /\ last.via = "scheduler"
  /\ wake.time >= 0 /\ wake.item = last.item
  /\ now >= wake.time

\* C12. Empty dequeue is fatal: a dequeue that starts with an empty bypass
\* queue and a tag engine without pending request ends in the assertion
\* "Impossible, must have checked empty() first"; it returns neither a work
\* item nor a future token, and no step follows it.
C12_EmptyDequeueFatal ==
  [][ /\ ( /\ last'.op = "dequeue"
           /\ HighSize(high_priority) = 0
           /\ request_count(scheduler) = 0 ) =>
          /\ fatal' = "Impossible, must have checked empty() first"
          /\ last'.kind = "abort"
          /\ last'.item = NoItem
      /\ fatal # "" => UNCHANGED vars
    ]_vars

\* A dequeue on an empty scheduler that still knows an idle client ended
\* the run.
C12_Witness ==
  /\ fatal = "Impossible, must have checked empty() first"
  /\ last.op = "dequeue" /\ last.kind = "abort"
  /\ client_count(scheduler) > 0

\* The cost of the request the step admitted to the tag engine.
AdmittedCost ==
  LET id == [ class_id |-> last'.item.klass,
              client_profile_id |-> last'.item.client_profile_id ]
  IN  scheduler'[id].requests[Len(scheduler'[id].requests)].cost

\* The step is an enqueue that admitted its item to the tag engine.
Admits == last'.op = "enqueue" /\ last'.bucket = ToScheduler

C15_ZeroShardsFatal ==
  /\ osd_bandwidth_capacity_per_shard # DoubleInf
  /\ shard.num_shards = 0 =>
       /\ fatal = "num_shards > 0"
       /\ osd_bandwidth_capacity_per_shard = 0
       /\ osd_bandwidth_cost_per_io = 0
       /\ scheduler = << >> /\ high_priority = << >>
       /\ next_seq = 1 /\ last.op = "init"

\* A scheduler was constructed with num_shards = 0 over a config store
\* whose bandwidth is not 0.
C15_Witness ==
  /\ shard.num_shards = 0 /\ fatal # ""
  /\ conf.bw_hdd > 0

\* C14. Capacity model: whatever raw bandwidth and raw IOPS the store holds
\* (0 included) and whatever num_shards > 0, osd_bandwidth_cost_per_io is
\* max(1, bandwidth) / max(1, IOPS) and osd_bandwidth_capacity_per_shard is
\* max(1, bandwidth) / num_shards, read from the hdd keys on a rotational
\* device and from the ssd keys otherwise; both are strictly positive, and
\* they are a function of the store and the shard alone.
C14_CapacityModel ==
  LET raw_bw   == IF shard.is_rotational THEN conf.bw_hdd ELSE conf.bw_ssd
      raw_iops == IF shard.is_rotational THEN conf.iops_hdd ELSE conf.iops_ssd
      bw       == IF raw_bw < 1 THEN 1 ELSE raw_bw
      iops     == IF raw_iops < FP THEN FP ELSE raw_iops
  IN  shard.num_shards > 0 =>
        /\ osd_bandwidth_cost_per_io = (bw * FP * FP) \div iops
        /\ osd_bandwidth_capacity_per_shard = (bw * FP) \div shard.num_shards
        /\ osd_bandwidth_cost_per_io > 0
        /\ osd_bandwidth_capacity_per_shard > 0

\* On a non-rotational device the ssd bandwidth was set to 0 while the hdd
\* bandwidth is not 0, with more than one shard.
C14_Witness ==
  /\ ~shard.is_rotational /\ shard.num_shards > 1
  /\ delivered.changed = { "bw_ssd" }
  /\ conf.bw_ssd = 0 /\ conf.bw_hdd > 0
  /\ osd_bandwidth_cost_per_io * 4 = FP

\* C16 as stated. Unknown profile name fatally rejected: no scheduler
\* instance, whatever its shard_id, is running while osd_mclock_profile is
\* none of high_client_ops, high_recovery_ops, balanced and custom.
C16_UnknownProfileFatal ==
  conf.profile \notin { "high_client_ops", "high_recovery_ops", "balanced",
                        "custom" } => fatal # ""

\* C17. Shard 0 is authoritative: on an instance with shard_id # 0 the
\* config store is, after construction and after every handle_conf_change,
\* what it was when the constructor or the handler was entered; a store that
\* differs belongs to shard 0.
C17_ShardZeroAuthoritative ==
  /\ shard.shard_id # 0 => conf = delivered.conf
  /\ conf # delivered.conf => shard.shard_id = 0

\* A profile change to high_client_ops was delivered to a shard other than
\* 0 whose store holds other per-class values than that profile's.
C17_Witness ==
  /\ shard.shard_id # 0 /\ fatal = ""
  /\ delivered.changed = { "profile" }
  /\ conf.profile = "high_client_ops"
  /\ conf.client_res # (60 * FP) \div 100

\* The nine per-class values of store c.
NineValues(c) ==
  << c.client_res, c.client_wgt, c.client_lim,
     c.background_recovery_res, c.background_recovery_wgt,
     c.background_recovery_lim,
     c.background_best_effort_res, c.background_best_effort_wgt,
     c.background_best_effort_lim >>

\* The ratio n / 100 as a double.
Percent(n) == (n * FP) \div 100

\* set_config_defaults_from_profile has run for the store delivered last.
ProfileApplied ==
  fatal = "" /\ (delivered.count = 0 \/ "profile" \in delivered.changed)

\* C18. Profile materialization on shard 0: after a built-in profile was
\* applied, the nine per-class keys hold the values of the table and the
\* other keys are what they were; after a switch from balanced to
\* high_recovery_ops the registry holds recovery reservation 0.7 x
\* capacity_per_shard and client reservation 0.3 x capacity_per_shard.
C18_ProfileMaterialization ==
  (shard.shard_id = 0 /\ ProfileApplied) =>
    /\ \A k \in DOMAIN conf \ QosKeys : conf[k] = delivered.conf[k]
    /\ conf.profile = "high_client_ops" =>
         NineValues(conf) = << Percent(60), 2, 0, Percent(40), 1, 0,
                               0, 1, Percent(70) >>
    /\ conf.profile = "high_recovery_ops" =>
         NineValues(conf) = << Percent(30), 1, 0, Percent(70), 2, 0,
                               0, 1, 0 >>
    /\ conf.profile = "balanced" =>
         NineValues(conf) = << Percent(50), 1, 0, Percent(50), 1, 0,
                               0, 1, Percent(90) >>
    /\ ( /\ delivered.before.profile = "balanced"
         /\ conf.profile = "high_recovery_ops" ) =>
         /\ client_registry.background_recovery.reservation =
              (Percent(70) * osd_bandwidth_capacity_per_shard) \div FP
         /\ client_registry.default_external_client_info.reservation =
              (Percent(30) * osd_bandwidth_capacity_per_shard) \div FP

\* Shard 0 was switched from balanced to high_recovery_ops, and recovery
\* now has the larger reservation.
C18_Witness ==
  /\ shard.shard_id = 0 /\ fatal = ""
  /\ delivered.changed = { "profile" }
  /\ delivered.before.profile = "balanced"
  /\ conf.profile = "high_recovery_ops"
  /\ NineValues(delivered.before) # NineValues(conf)
  /\ client_registry.background_recovery.reservation >
       client_registry.default_external_client_info.reservation

\* The reservation and the limit the registry holds for ratio x.
ExpectedRes(x) ==
  IF x = 0 THEN default_min
  ELSE (x * osd_bandwidth_capacity_per_shard) \div FP

ExpectedLim(x) ==
  IF x = 0 THEN default_max
  ELSE (x * osd_bandwidth_capacity_per_shard) \div FP

\* C19. With osd_mclock_profile = custom no key of the config store is
\* written, and the registry is computed from the nine values the operator
\* has set.
C19_CustomWritesNothing ==
  (conf.profile = "custom" /\ fatal = "") =>
    /\ conf = delivered.conf
    /\ client_registry.default_external_client_info =
         ClientInfo(ExpectedRes(conf.client_res), conf.client_wgt,
                    ExpectedLim(conf.client_lim))
    /\ client_registry.background_recovery =
         ClientInfo(ExpectedRes(conf.background_recovery_res),
                    conf.background_recovery_wgt,
                    ExpectedLim(conf.background_recovery_lim))
    /\ client_registry.background_best_effort =
         ClientInfo(ExpectedRes(conf.background_best_effort_res),
                    conf.background_best_effort_wgt,
                    ExpectedLim(conf.background_best_effort_lim))

\* Shard 0 runs the custom profile over per-class values of the operator
\* that no built-in profile has.
C19_Witness ==
  /\ shard.shard_id = 0 /\ fatal = ""
  /\ conf.profile = "custom"
  /\ conf.client_wgt = 3 /\ conf.client_res = FP \div 5
  /\ client_registry.default_external_client_info.weight = 3

\* The scheduler ids whose ClientInfo the registry computes from the store.
RegistryIds ==
  { [ class_id |-> k, client_profile_id |-> 0 ] :
      k \in { "client", "background_recovery", "background_best_effort" } }

\* C20 as stated. ClientRegistry bounds: after any update_from_config every
\* ClientInfo returned by get_info for the default external client,
\* background_recovery and background_best_effort has its reservation and
\* its limit in [default_min, default_max] and a weight >= 1.
C20_RegistryBounds ==
  fatal = "" =>
    \A id \in RegistryIds :
      LET info == get_info(client_registry, id)
      IN  /\ default_min <= info.reservation
          /\ info.reservation <= default_max
          /\ default_min <= info.limit
          /\ info.limit <= default_max
          /\ info.weight >= 1

\* The registry holds what update_from_config computes from store c.
RegistryOf(c) ==
  /\ client_registry.default_external_client_info =
       ClientInfo(ExpectedRes(c.client_res), c.client_wgt,
                  ExpectedLim(c.client_lim))
  /\ client_registry.background_recovery =
       ClientInfo(ExpectedRes(c.background_recovery_res),
                  c.background_recovery_wgt,
                  ExpectedLim(c.background_recovery_lim))
  /\ client_registry.background_best_effort =
       ClientInfo(ExpectedRes(c.background_best_effort_res),
                  c.background_best_effort_wgt,
                  ExpectedLim(c.background_best_effort_lim))

\* The constructor or the last handle_conf_change has ended with a call of
\* update_from_config.
Refreshed ==
  /\ fatal = ""
  /\ \/ delivered.count = 0
     \/ delivered.changed \cap (IopsKeys \cup BandwidthKeys) # {}
     \/ "profile" \in delivered.changed
     \/ delivered.changed \cap QosKeys # {} /\ conf.profile = "custom"

\* C21. update_from_config sets, for the default external client,
\* background_recovery and background_best_effort, the reservation to
\* default_min when the configured ratio is 0 and to ratio x
\* capacity_per_shard otherwise, the limit to default_max when the ratio is
\* 0 and to ratio x capacity_per_shard otherwise, and the weight to the
\* configured weight; the table of external clients is left as it was.
C21_UpdateFromConfig ==
  Refreshed =>
    /\ RegistryOf(conf)
    /\ client_registry.external_client_infos =
         EmptyRegistry.external_client_infos

\* The registry was computed from a store with a zero and a non-zero
\* reservation ratio, a zero and a non-zero limit ratio, and a weight that
\* is not 1.
C21_Witness ==
  /\ Refreshed /\ delivered.count > 0
  /\ conf.client_res # 0 /\ conf.background_best_effort_res = 0
  /\ conf.client_lim # 0 /\ conf.background_recovery_lim = 0
  /\ conf.client_wgt > 1
  /\ client_registry.background_best_effort.reservation = default_min
  /\ client_registry.background_recovery.limit = default_max

\* C22. Idempotence: a second update_from_config with the store and the
\* capacity of the first leaves the registry as the first left it, and a
\* second notification of the profile the scheduler has applied last leaves
\* the registry and the store as they were.
C22_Idempotence ==
  [][ last'.op = "handle_conf_change" =>
        /\ Refreshed' =>
             update_from_config(client_registry', conf',
                                osd_bandwidth_capacity_per_shard') =
               client_registry'
        /\ ( /\ delivered'.changed = { "profile" }
             /\ delivered'.before = delivered'.conf
             /\ fatal' = "" ) =>
             /\ client_registry' = client_registry
             /\ conf' = conf ]_vars

\* Shard 0 was notified a second time of the built-in profile it runs.
C22_Witness ==
  /\ shard.shard_id = 0 /\ fatal = ""
  /\ delivered.count > 0
  /\ delivered.changed = { "profile" }
  /\ delivered.before = delivered.conf
  /\ conf.profile \in BuiltinProfiles
  /\ RegistryOf(conf)

\* The capacity of the shard under store c.
CapacityOf(c) ==
  LET raw == IF shard.is_rotational THEN c.bw_hdd ELSE c.bw_ssd
  IN  ((IF raw < 1 THEN 1 ELSE raw) * FP) \div shard.num_shards

\* C23. After every handle_conf_change whose changed set holds a bandwidth
\* or an IOPS key, the capacity parameters are the ones of the current
\* store, and every reservation and limit of the registry that comes from a
\* non-zero ratio is that ratio times the new capacity_per_shard.
C23_CapacityRescales ==
  ( /\ fatal = "" /\ delivered.count > 0
    /\ delivered.changed \cap (IopsKeys \cup BandwidthKeys) # {} ) =>
    LET cap == osd_bandwidth_capacity_per_shard
        Scaled(x, v) == x # 0 => v = (x * cap) \div FP
    IN  /\ cap = CapacityOf(conf)
        /\ Scaled(conf.client_res,
                  client_registry.default_external_client_info.reservation)
        /\ Scaled(conf.client_lim,
                  client_registry.default_external_client_info.limit)
        /\ Scaled(conf.background_recovery_res,
                  client_registry.background_recovery.reservation)
        /\ Scaled(conf.background_recovery_lim,
                  client_registry.background_recovery.limit)
        /\ Scaled(conf.background_best_effort_res,
                  client_registry.background_best_effort.reservation)
        /\ Scaled(conf.background_best_effort_lim,
                  client_registry.background_best_effort.limit)

\* A bandwidth change gave the shard another capacity than before, and the
\* client reservation comes from a non-zero ratio.
C23_Witness ==
  /\ fatal = "" /\ delivered.count > 0
  /\ delivered.changed \cap BandwidthKeys # {}
  /\ CapacityOf(delivered.before) # osd_bandwidth_capacity_per_shard
  /\ conf.client_res # 0

\* C24. A handle_conf_change whose changed set holds per-class keys only
\* leaves the capacity parameters unchanged; it recomputes the registry
\* from the store when the profile is custom and leaves the registry
\* unchanged under every other profile.
C24_QosOnlyCustom ==
  [][ ( /\ last'.op = "handle_conf_change"
        /\ delivered'.changed # {}
        /\ delivered'.changed \subseteq QosKeys ) =>
        /\ osd_bandwidth_cost_per_io' = osd_bandwidth_cost_per_io
        /\ osd_bandwidth_capacity_per_shard' =
             osd_bandwidth_capacity_per_shard
        /\ conf'.profile = "custom" => RegistryOf(conf)'
        /\ conf'.profile # "custom" => client_registry' = client_registry
    ]_vars

\* Under a built-in profile the operator edited a per-class key, and the
\* registry does not hold the edited value.
C24_Witness ==
  /\ fatal = "" /\ delivered.changed = { "client_res" }
  /\ conf.profile \in BuiltinProfiles
  /\ conf.client_res # 0
  /\ client_registry.default_external_client_info.reservation #
       (conf.client_res * osd_bandwidth_capacity_per_shard) \div FP

\* The registry entry of a class under profile row p.
InfoOf(p) == ClientInfo(ExpectedRes(p.res), p.wgt, ExpectedLim(p.lim))

\* C25 as stated. While a built-in profile is active on shard 0, after any
\* sequence of config changes the registry entries are that profile's table
\* ratios resolved against the current capacity_per_shard.
C25_BuiltinIgnoresEdits ==
  ( shard.shard_id = 0 /\ fatal = "" /\ conf.profile \in BuiltinProfiles ) =>
    LET p == IF conf.profile = "high_client_ops"
               THEN [ c |-> ProfileRow(Percent(60), 2, 0),
                      r |-> ProfileRow(Percent(40), 1, 0),
                      b |-> ProfileRow(0, 1, Percent(70)) ]
             ELSE IF conf.profile = "high_recovery_ops"
               THEN [ c |-> ProfileRow(Percent(30), 1, 0),
                      r |-> ProfileRow(Percent(70), 2, 0),
                      b |-> ProfileRow(0, 1, 0) ]
             ELSE [ c |-> ProfileRow(Percent(50), 1, 0),
                    r |-> ProfileRow(Percent(50), 1, 0),
                    b |-> ProfileRow(0, 1, Percent(90)) ]
    IN  /\ client_registry.default_external_client_info = InfoOf(p.c)
        /\ client_registry.background_recovery = InfoOf(p.r)
        /\ client_registry.background_best_effort = InfoOf(p.b)

\* The clients whose head request is due by its reservation tag, and the
\* ones whose head request is within its limit.
ResvDue == { i \in Pending(scheduler) : HeadReq(scheduler, i).r <= now }
WithinLimit == { i \in Pending(scheduler) : HeadReq(scheduler, i).l <= now }

\* The step is a dequeue that asked the tag engine.
AsksEngine == last'.op = "dequeue" /\ DOMAIN high_priority = {}

\* The step handed out the head request of client i and nothing else.
HandsOut(i) ==
  /\ last'.kind = "item"
  /\ last'.item = HeadReq(scheduler, i).item
  /\ scheduler'[i].requests = Tail(scheduler[i].requests)
  /\ \A j \in DOMAIN scheduler \ {i} :
       scheduler'[j].requests = scheduler[j].requests

\* Client b would be served before client a by the proportional order.
PropBefore(pb, b, pa, a) == pb < pa \/ (pb = pa /\ IdLess(b, a))

\* C26. Reservation precedes proportional: when some head request has
\* r_tag <= now, the tag engine returns the head request of the client with
\* the smallest such r_tag, the one whose record is older on a tie, whatever
\* the p_tags are; a head request with r_tag > now is returned only if its
\* l_tag <= now, when no head request has r_tag <= now.
C26_ReservationFirst ==
  [][ AsksEngine =>
        /\ ResvDue # {} =>
             \E i \in ResvDue :
               /\ \A j \in ResvDue \ {i} :
                    \/ HeadReq(scheduler, i).r < HeadReq(scheduler, j).r
                    \/ /\ HeadReq(scheduler, i).r = HeadReq(scheduler, j).r
                       /\ scheduler[i].order < scheduler[j].order
               /\ HandsOut(i)
        /\ (ResvDue = {} /\ last'.kind = "item") =>
             \E i \in WithinLimit : HandsOut(i) ]_vars

\* The reservation phase served a client whose FIFO is now empty, while the
\* head request of another client is within its limit and has the smaller
\* p_tag.
C26_Witness ==
  /\ last.op = "dequeue" /\ last.kind = "item" /\ last.via = "scheduler"
  /\ LET a == get_scheduler_id(last.item)
     IN  /\ a \in DOMAIN scheduler /\ scheduler[a].requests = << >>
         /\ scheduler[a].r_tag <= now
         /\ \E b \in WithinLimit :
              /\ HeadReq(scheduler, b).r > now
              /\ HeadReq(scheduler, b).p < scheduler[a].p_tag

\* C27. At-limit = Wait: no step but a dequeue that returns it takes a
\* request out of the tag engine; when no head request has r_tag <= now,
\* the head request returned is the one with the smallest p_tag among the
\* clients whose head l_tag <= now, and when there is no such client no
\* request is returned and every head request stays where it is.
C27_AtLimitWait ==
  [][ /\ SchedItems(scheduler) \ SchedItems(scheduler') \subseteq
           IF last'.op = "dequeue" /\ last'.kind = "item"
           THEN { last'.item } ELSE {}
      /\ request_count(scheduler') >= request_count(scheduler) -
           (IF last'.op = "dequeue" /\ last'.kind = "item" THEN 1 ELSE 0)
      /\ (AsksEngine /\ ResvDue = {}) =>
           /\ WithinLimit # {} =>
                \E i \in WithinLimit :
                  /\ \A j \in WithinLimit \ {i} :
                       PropBefore(HeadReq(scheduler, i).p, i,
                                  HeadReq(scheduler, j).p, j)
                  /\ HandsOut(i)
           /\ WithinLimit = {} =>
                /\ last'.kind # "item"
                /\ scheduler' = scheduler ]_vars

\* The proportional phase served a client whose FIFO is now empty, while
\* another client that precedes it in the proportional order waits with a
\* head request beyond its limit.
C27_Witness ==
  /\ last.op = "dequeue" /\ last.kind = "item" /\ last.via = "scheduler"
  /\ LET a == get_scheduler_id(last.item)
     IN  /\ a \in DOMAIN scheduler /\ scheduler[a].requests = << >>
         /\ scheduler[a].r_tag > now
         /\ \E b \in Pending(scheduler) :
              /\ HeadReq(scheduler, b).l > now
              /\ HeadReq(scheduler, b).r > now
              /\ PropBefore(HeadReq(scheduler, b).p, b, scheduler[a].p_tag, a)

\* The total cost of the requests of client c among entries i..j of served.
RECURSIVE ServedCost(_, _, _)
ServedCost(c, i, j) ==
  IF i > j THEN 0
  ELSE (IF served[j].id = c THEN served[j].cost ELSE 0)
         + ServedCost(c, i, j - 1)

\* The clients the tag engine has returned a request of.
ServedIds == { served[n].id : n \in 1..Len(served) }

\* cost, as an amount of limit x time.
CostUnits(cost) == cost * FP * TagScale

\* C28 as stated. Limit ceiling: for every client and every time window,
\* the total cost of the client's requests the tag engine returned in the
\* window is at most limit x window length plus the cost of one request.
C28_LimitCeilingEveryWindow ==
  \A c \in ServedIds :
    \A i \in 1..Len(served), j \in 1..Len(served) :
      (i <= j /\ served[i].id = c /\ served[j].id = c) =>
        CostUnits(ServedCost(c, i, j)) <=
          get_info(client_registry, c).limit * (served[j].time - served[i].time)
            + CostUnits(served[j].cost)

\* C28, amended. Limit ceiling: for every client whose reservation does not
\* exceed its limit and every time t, the total cost of the client's
\* requests the tag engine returned in the window from the construction of
\* the scheduler to t is at most limit x t plus the cost of one request.
C28_LimitCeiling ==
  \A c \in ServedIds :
    get_info(client_registry, c).reservation <=
      get_info(client_registry, c).limit =>
      \A j \in 1..Len(served) :
        served[j].id = c =>
          CostUnits(ServedCost(c, 1, j)) <=
            get_info(client_registry, c).limit * served[j].time
              + CostUnits(served[j].cost)

\* A client with reservation below its limit got two requests at the same
\* instant, after a time in which dequeue was not called.
C28_Witness ==
  \E i \in 1..Len(served), j \in 1..Len(served) :
    /\ i < j /\ served[i].id = served[j].id
    /\ served[i].time = served[j].time
    /\ get_info(client_registry, served[i].id).reservation <
         get_info(client_registry, served[i].id).limit

\* C29 as stated. Empty-then-future: when the bypass queue is empty, the tag
\* engine holds a pending request and every pending head request has
\* l_tag > now, dequeue returns a future token whose time is the minimum of
\* the head l_tags.
C29_FutureAtMinLimitTag ==
  [][ ( AsksEngine /\ Pending(scheduler) # {} /\ WithinLimit = {} ) =>
        /\ last'.kind = "future"
        /\ last'.time = SetMin({ HeadReq(scheduler, i).l :
                                  i \in Pending(scheduler) }) ]_vars

\* C29, amended. Empty-then-future: when the bypass queue is empty, the tag
\* engine holds a pending request and every pending head request has
\* l_tag > now and r_tag > now, dequeue returns a future token whose time is
\* the minimum over the pending heads of the smaller of r_tag and l_tag; it
\* is the minimum of the head l_tags when no head r_tag is below its l_tag.
C29_EmptyThenFuture ==
  [][ ( /\ AsksEngine /\ Pending(scheduler) # {}
        /\ WithinLimit = {} /\ ResvDue = {} ) =>
        LET heads == { HeadReq(scheduler, i) : i \in Pending(scheduler) }
        IN  /\ last'.kind = "future"
            /\ \E h \in heads : last'.time \in { h.r, h.l }
            /\ \A h \in heads : last'.time <= h.r /\ last'.time <= h.l
            /\ (\A h \in heads : h.r >= h.l) =>
                 last'.time = SetMin({ h.l : h \in heads }) ]_vars

\* A future token was returned whose time is a reservation tag, earlier
\* than every head l_tag.
C29_Witness ==
  /\ last.op = "dequeue" /\ last.kind = "future"
  /\ Pending(scheduler) # {}
  /\ \A i \in Pending(scheduler) : last.time < HeadReq(scheduler, i).l
  /\ \E i \in Pending(scheduler) : last.time = HeadReq(scheduler, i).r

\* C30 as stated. Within one bypass bucket an item entered with front=true
\* is dequeued last: it is returned only when no item entered with
\* front=false is queued in its bucket.
C30_FrontDequeuedLast ==
  [][ (ReturnsItem /\ last'.via = "high_priority" /\ last'.item.front) =>
        \A y \in SeqItems(BucketOf(high_priority, last'.bucket)) :
          y.front ]_vars

\* C30, amended. Within one bypass bucket an item entered with front=true
\* is dequeued first: an item entered with front=false is returned only
\* when no item entered with front=true is queued in its bucket.
C30_FrontDequeuedFirst ==
  [][ (ReturnsItem /\ last'.via = "high_priority" /\ ~last'.item.front) =>
        \A y \in SeqItems(BucketOf(high_priority, last'.bucket)) :
          ~y.front ]_vars

\* A front-enqueued item was returned while a back-enqueued item that
\* entered the same bucket before it is still queued.
C30_Witness ==
  /\ last.op = "dequeue" /\ last.kind = "item" /\ last.via = "high_priority"
  /\ last.item.front
  /\ \E y \in SeqItems(BucketOf(high_priority, last.bucket)) :
       ~y.front /\ y.seq < last.item.seq

\* The registry a built-in profile resolves to at a capacity per shard.
ResolvedInfo(row, capacity) ==
  ClientInfo(IF row.res = 0 THEN default_min
             ELSE (row.res * capacity) \div FP,
             row.wgt,
             IF row.lim = 0 THEN default_max
             ELSE (row.lim * capacity) \div FP)

HoldsProfile(reg, name, capacity) ==
  /\ reg.default_external_client_info =
       ResolvedInfo(ProfileOf(name).client, capacity)
  /\ reg.background_recovery =
       ResolvedInfo(ProfileOf(name).background_recovery, capacity)
  /\ reg.background_best_effort =
       ResolvedInfo(ProfileOf(name).background_best_effort, capacity)

\* Every notification was delivered to every shard.
AllDelivered == \A i \in DOMAIN inbox : inbox[i] = << >>

\* C31. Profile change reaches every shard: after osd_mclock_profile changed
\* from one built-in profile to another and every resulting notification
\* was delivered, in any order across the shards, the registry of shard 0
\* and of every shard with shard_id > 0 holds the ratios of the new profile
\* resolved against that shard's capacity.
C31_ProfileReachesEveryShard ==
  ( fatal = "" /\ edits > 0 /\ AllDelivered ) =>
    /\ HoldsProfile(client_registry, conf.profile,
                    osd_bandwidth_capacity_per_shard)
    /\ \A i \in DOMAIN peers :
         HoldsProfile(peers[i].client_registry, conf.profile,
                      peers[i].osd_bandwidth_capacity_per_shard)

\* C32. cutoff_priority is set by the constructor to CEPH_MSG_PRIO_HIGH
\* when osd_op_queue_cut_off is "high", to one of the two constants when it
\* is "debug_random" and to CEPH_MSG_PRIO_LOW for every other value, and no
\* enqueue, enqueue_front, dequeue or handle_conf_change changes it, nor an
\* edit of osd_op_queue_cut_off in the store; every item that enqueue put
\* into the bypass queue is immediate or at or above it, and every item in
\* the tag engine is below it.
C32_CutoffFixed ==
  /\ cutoff_priority \in
       ( IF conf.cut_off = "high" THEN { CEPH_MSG_PRIO_HIGH }
         ELSE IF conf.cut_off = "debug_random"
           THEN { CEPH_MSG_PRIO_LOW, CEPH_MSG_PRIO_HIGH }
         ELSE { CEPH_MSG_PRIO_LOW } )
  /\ [][ cutoff_priority' = cutoff_priority ]_vars
  /\ [] ( /\ \A x \in HighItems(high_priority) :
               ~x.front => (x.klass = "immediate"
                              \/ x.priority >= cutoff_priority)
          /\ \A x \in SchedItems(scheduler) :
               x.klass # "immediate" /\ x.priority < cutoff_priority )

\* After the operator has set osd_op_queue_cut_off to "high" and a tracked
\* key was notified, an item of priority CEPH_MSG_PRIO_LOW was still put
\* into the bypass queue.
C32_Witness ==
  /\ conf.cut_off = "high" /\ cutoff_priority = CEPH_MSG_PRIO_LOW
  /\ delivered.count > 0
  /\ last.op = "enqueue" /\ last.item.klass = "client"
  /\ last.item.priority = CEPH_MSG_PRIO_LOW
  /\ last.bucket = CEPH_MSG_PRIO_LOW

\* C33. ClientRegistry lookup: get_info changes no registry entry; for class
\* client it returns the entry of the client_profile_id in the table of
\* external clients when there is one and the default external entry
\* otherwise, for background_recovery and background_best_effort the entry
\* of that class; for class immediate it ends in the assertion "Cannot
\* schedule immediate".
C33_RegistryLookup ==
  [][ last'.op = "get_info" =>
        LET id == last'.id
        IN  /\ client_registry' = client_registry
            /\ id.class_id = "immediate" =>
                 /\ last'.kind = "abort"
                 /\ fatal' = "Cannot schedule immediate"
            /\ id.class_id # "immediate" =>
                 /\ last'.kind = "info"
                 /\ fatal' = fatal
            /\ id.class_id = "client" =>
                 last'.info =
                   IF id.client_profile_id \in
                        DOMAIN client_registry.external_client_infos
                   THEN client_registry.external_client_infos[
                          id.client_profile_id]
                   ELSE client_registry.default_external_client_info
            /\ id.class_id = "background_recovery" =>
                 last'.info = client_registry.background_recovery
            /\ id.class_id = "background_best_effort" =>
                 last'.info = client_registry.background_best_effort ]_vars

\* After a change of the profile, the lookup of background_recovery returned
\* its own entry, which differs from the default external entry.
C33_Witness ==
  /\ last.op = "get_info" /\ last.kind = "info"
  /\ last.id.class_id = "background_recovery"
  /\ delivered.count > 0
  /\ last.info = client_registry.background_recovery
  /\ last.info # client_registry.default_external_client_info

\* C34. The assertion "Cannot schedule immediate" is unreachable through
\* enqueue, enqueue_front, dequeue and handle_conf_change: the tag engine
\* never holds a client record or a request of class immediate, and no run
\* ends in the assertion.
C34_ImmediateNeverScheduled ==
  /\ fatal # "Cannot schedule immediate"
  /\ \A id \in DOMAIN scheduler : id.class_id # "immediate"
  /\ \A x \in SchedItems(scheduler) : x.klass # "immediate"

\* An immediate item with a priority below the cutoff was enqueued while
\* the tag engine holds requests, and a config change was notified.
C34_Witness ==
  /\ last.op = "enqueue" /\ last.item.klass = "immediate"
  /\ last.item.priority < cutoff_priority
  /\ last.bucket = immediate_class_priority
  /\ request_count(scheduler) > 0
  /\ delivered.count > 0

\* The items the scheduler holds, and their number.
QueuedItems == HighItems(high_priority) \cup SchedItems(scheduler)
QueuedCount == HighSize(high_priority) + request_count(scheduler)

\* C35. Conservation of items: the scheduler holds every queued item once,
\* and only items that were enqueued; each enqueue and enqueue_front adds
\* exactly its item, each dequeue that returns a work item removes exactly
\* that item, which was queued, and a dequeue that returns a future token
\* and every other step remove and add nothing. So the number of queued
\* items is the number of enqueue and enqueue_front calls minus the number
\* of returned work items, and no item is returned twice.
C35_Conservation ==
  /\ [] ( /\ Cardinality(QueuedItems) = QueuedCount
          /\ QueuedCount <= next_seq - 1
          /\ \A x \in QueuedItems : x.seq >= 1 /\ x.seq < next_seq )
  /\ [][ IF last'.op \in { "enqueue", "enqueue_front" } THEN
           /\ last'.item.seq = next_seq
           /\ last'.item \notin QueuedItems
           /\ QueuedItems' = QueuedItems \cup { last'.item }
           /\ QueuedCount' = QueuedCount + 1
         ELSE IF last'.op = "dequeue" /\ last'.kind = "item" THEN
           /\ last'.item \in QueuedItems
           /\ QueuedItems' = QueuedItems \ { last'.item }
           /\ QueuedCount' = QueuedCount - 1
         ELSE
           /\ QueuedItems' = QueuedItems
           /\ QueuedCount' = QueuedCount
           /\ high_priority' = high_priority
           /\ \A i \in DOMAIN scheduler' :
                scheduler'[i].requests = scheduler[i].requests ]_vars

\* Two items were enqueued and a dequeue returned one of them from the
\* bypass queue; the other one is still queued in the tag engine.
C35_Witness ==
  /\ next_seq > 2
  /\ last.op = "dequeue" /\ last.kind = "item"
  /\ QueuedCount = next_seq - 2
  /\ request_count(scheduler) = 1

\* C36. Drain liveness: when the clock keeps advancing and the consumer
\* keeps calling dequeue while the scheduler is not empty, every enqueued
\* item is eventually returned, and once the producers have stopped the
\* scheduler becomes empty and stays empty.
C36_DrainLiveness ==
  /\ <>[] (HighSize(high_priority) + request_count(scheduler) = 0)
  /\ \A n \in 1..MaxEnq :
       (\E x \in HighItems(high_priority) \cup SchedItems(scheduler) :
          x.seq = n)
         ~> ( /\ last.op = "dequeue" /\ last.kind = "item"
              /\ last.item.seq = n )

\* Every item was enqueued, the last one was returned by the tag engine
\* after a future token, and the scheduler is empty.
C36_Witness ==
  /\ next_seq > MaxEnq
  /\ HighSize(high_priority) + request_count(scheduler) = 0
  /\ last.op = "dequeue" /\ last.kind = "item" /\ last.via = "scheduler"
  /\ wake.time > 0 /\ wake.item = last.item

\* C39. Shard index range: for num_shards > 0 every key that
\* get_bucket_index_objects and get_bucket_instance_ids put into the map is
\* a shard index in [0, num_shards): the keys are 0..num_shards-1 for a
\* shard_id < 0, the map is empty for a shard_id outside the layout; for
\* num_shards = 0 the only key is 0 and names the unsharded base object.
C39_ShardIndexRange ==
  ( call.op \in { "get_bucket_index_objects", "get_bucket_instance_ids" } ) =>
    LET keys == DOMAIN call.result
    IN  /\ call.num_shards > 0 =>
             /\ keys \subseteq 0..(call.num_shards - 1)
             /\ call.shard_id < 0 => keys = 0..(call.num_shards - 1)
             /\ call.shard_id >= call.num_shards => keys = {}
        /\ call.num_shards = 0 =>
             /\ keys = { 0 }
             /\ call.result[0] =
                  IF call.op = "get_bucket_index_objects" THEN dir_oid
                  ELSE plain_id

\* C38. handle_overwrite treats a data-log error as fatal: when the datasync
\* flag changed and the bilog write succeeded, a failure of add_entry for any
\* shard makes handle_overwrite return a negative error code, whichever
\* shard failed and whatever the later shards did; when the flag did not
\* change or the bucket has no bilog it returns 0 and writes nothing.
C38_DatalogErrorFatal ==
  ( call.op = "handle_overwrite" /\ call.phase = "done" ) =>
    /\ ( call.wrote_bilog /\ call.failed # {} ) => call.ret < 0
    /\ ( call.old_sync_enabled = call.new_sync_enabled \/ call.logs = "none" )
         => ( call.ret = 0 /\ ~call.wrote_bilog /\ call.logged = {} )

\* The shards of the call whose creation failed with an error other than
\* EEXIST.
FailedCreations ==
  { i \in DOMAIN call.outcome : call.outcome[i] \notin { 0, EEXIST } }

====
